---- MODULE Spec2Model ----
(***************************************************************************)
(* Koopa Engine (KoopaHDR1.07.31.251.0X.py): the simulation loop of        *)
(* GameManager.update and the entities it drives, as a state machine.      *)
(*                                                                         *)
(* Units.  Rect coordinates are integer pixels, as in pygame.Rect.         *)
(* Velocities (pygame Vector2, floats in the source) are kept in TENTHS of *)
(* a pixel per tick: every velocity the program produces is a multiple of  *)
(* 0.1 (GRAVITY 0.5, JUMP_STRENGTH*0.7 = -8.4, PLAYER_SPEED*1.2 = 7.2) and *)
(* no sum the program truncates lies within 0.05 of an integer, so the     *)
(* float rounding of the source never changes a comparison or a            *)
(* truncation.  Assigning a float to a Rect attribute truncates toward     *)
(* zero (Trunc10).                                                         *)
(***************************************************************************)
EXTENDS Integers, Sequences, FiniteSets, TLC

\* ------------------------------------------------------------------------
\* Constants of the source (pixels, ticks, points)
\* ------------------------------------------------------------------------
TILE_SIZE == 32
\* GRAVITY = 0.5 px/tick, in tenths
GRAVITY == 5
\* terminal fall speed 10 px/tick (apply_gravity), in tenths
V_MAX == 100
\* JUMP_STRENGTH = -12 px/tick, in tenths
JUMP_STRENGTH == -120
PLAYER_SPEED == 6
KOOPA_SPEED == 2
KOOPA_SHELL_SPEED == 10
\* sprite sizes: player_img / koopa_img are 32x32, shell height 24, coin 20x20
BODY_W == 32
BODY_H == 32
SHELL_H == 24
COIN_SIZE == 20
\* Player(100, 100) and the respawn point
START_X == 100
START_Y == 100
PLAYER_SHELL_TICKS == 300
STOMP_TICKS == 180
KICK_TICKS == 300
\* Koopa.kick: vel.y = -5, in tenths
KICK_VY == -50
COIN_SCORE == 50
STOMP_SCORE == 100
KICK_SCORE == 200
START_LIVES == 3
LEVEL_END_MARGIN == 100

\* ------------------------------------------------------------------------
\* Level tables
\* ------------------------------------------------------------------------
\* WORLDS[world][level] is a tuple of rows; a row is the string of the source
WORLDS ==
  <<
    <<  \* world index 0
      <<  \* level index 0
        "................................................................................",
        "................................................................................",
        "..................###..............................................K............",
        "..............................................###...............................",
        ".............................###..................C.............................",
        "................................................................................",
        "........K.......................................................................",
        "################################################################################"
      >>,
      <<  \* level index 1
        "................................................................................",
        "...................................###..........................................",
        "................K.................#...#........................................",
        "..................................#...#................C.......................",
        "..................................#...#.........................................",
        "...................................###..................K......................",
        "................................................................................",
        "################################################################################"
      >>,
      <<  \* level index 2
        "................................................................................",
        ".................###............................................................",
        "........K.......#...#..............................###..........................",
        "................#...#.............................#...#........C................",
        "................#...#.............................#...#.........................",
        ".................###..............................#...#........K................",
        "................................................................................",
        "################################################################################"
      >>
    >>,
    <<  \* world index 1
      <<  \* level index 0
        "................................................................................",
        "..............................#.................................................",
        ".............................#.#......................K.........................",
        "............................#...#....................###........................",
        "........C..................#...#...................#...#......................",
        "............................#...#...................#...#........K.............",
        ".............................#.#....................#...#......................",
        "..............................#......................###.......................",
        "................................................................................",
        "################################################################################"
      >>,
      <<  \* level index 1
        "................................................................................",
        "................#...............................................................",
        "...............#.#........................................C.....................",
        "..............#...#..............................K..............................",
        ".............#.....#............................................................",
        "............#.......#...........................###..............................",
        "...........#.........#.........................#...#........K..................",
        "..........#...........#........................#...#............................",
        ".........#.............#.......................#...#...........................",
        "........#...............#......................###.............................",
        "................................................................................",
        "################################################################################"
      >>,
      <<  \* level index 2
        "................................................................................",
        "................................................................................",
        "...............###..............................................K...............",
        "..............#...#....................................C........................",
        ".............#.....#............................................................",
        "............#.......#..........................K.................................",
        "...........#.........#..........................................................",
        "..........#...........#.........................................................",
        ".........#.............#........................................................",
        "........#...............#......................................................",
        ".......#.................#.....................................................",
        "......#...................#....................................................",
        ".....#.....................#...................................................",
        "....#.......................#..................................................",
        "...#.........................#.................................................",
        "................................................................................",
        "################################################################################"
      >>
    >>,
    <<  \* world index 2
      <<  \* level index 0
        "................................................................................",
        "................................................................................",
        "................................................................................",
        ".................K.........................................###..................",
        "..........................................................#...#........C........",
        "..........................................................#...#.................",
        "..........................................................#...#........K........",
        "...........................................................###..................",
        "................................................................................",
        "################################################################################"
      >>,
      <<  \* level index 1
        "................................................................................",
        "...............#................................................................",
        "..............#.#........................................K......................",
        ".............#...#.....................................###.....................",
        "............#.....#...................................#...#........C...........",
        "...........#.......#..................................#...#....................",
        "..........#.........#........................K........#...#....................",
        ".........#...........#...............................#...#.....................",
        "........#.............#..............................###.......................",
        "................................................................................",
        "################################################################################"
      >>,
      <<  \* level index 2
        "................................................................................",
        "................................................................................",
        "..............###...............................................K...............",
        ".............#...#.....................................C........................",
        "............#.....#.............................................................",
        "...........#.......#...................................###......................",
        "..........#.........#........................K.........#...#....................",
        ".........#...........#................................#...#....................",
        "........#.............#...............................#...#.....................",
        ".......#...............#..............................###.......................",
        "................................................................................",
        "################################################################################"
      >>
    >>
  >>

\* Python indexes worlds, levels, rows and columns from 0; the tuples above
\* are indexed from 1, and so are the characters of a row (SubSeq).
NumWorlds == Len(WORLDS)
NumLevels(world) == Len(WORLDS[world + 1])

\* get_level(): the level the globals select, or the 16x80 fallback grid
FallbackLevel == [r \in 1..16 |-> "................................................................................"]

get_level(world, level) ==
  IF 0 <= world /\ world < NumWorlds /\ 0 <= level /\ level < NumLevels(world)
  THEN WORLDS[world + 1][level + 1]
  ELSE FallbackLevel

Max(a, b) == IF a >= b THEN a ELSE b
Min(a, b) == IF a <= b THEN a ELSE b

\* faulty variant: the level is clamped to the number of levels
ClampLevelLen(w, level) == <<w, Max(0, Min(level, NumLevels(w)))>>

\* load_level(world, level): the clamped <<current_world, current_level>>
ClampLevel(w, level) == <<w, Max(0, Min(level, NumLevels(w) - 1))>>

load_level(world, level) == ClampLevel(Max(0, Min(world, NumWorlds - 1)), level)

\* ------------------------------------------------------------------------
\* TileMap
\* ------------------------------------------------------------------------
\* TileMap.__init__: width is the length of row 0, height the row count.
\* data[0] of an empty table raises IndexError; nothing compares row lengths.
TileMapInit(data) ==
  IF Len(data) = 0
  THEN [error |-> "IndexError", width |-> 0, height |-> 0]
  ELSE [error |-> "none", width |-> Len(data[1]), height |-> Len(data)]

CellChar(data, row, col) ==
  IF row >= 0 /\ row < Len(data) /\ col >= 0 /\ col < Len(data[row + 1])
  THEN SubSeq(data[row + 1], col + 1, col + 1)
  ELSE " "

\* scan order of load_tiles: rows top to bottom, columns left to right
Before(a, b) == a[1] < b[1] \/ (a[1] = b[1] /\ a[2] < b[2])

FirstOf(S) == CHOOSE a \in S : \A b \in S : a = b \/ Before(a, b)

RECURSIVE InScanOrder(_)
InScanOrder(S) ==
  IF S = {} THEN <<>>
  ELSE LET a == FirstOf(S) IN <<a>> \o InScanOrder(S \ {a})

\* the cells <<row, col>> holding character ch
CellSet(data, ch) ==
  UNION {{<<r, c>> : c \in {d \in 0..(Len(data[r + 1]) - 1) :
                              SubSeq(data[r + 1], d + 1, d + 1) = ch}} :
         r \in 0..(Len(data) - 1)}

\* the same, in scan order (the coin and koopa lists)
CellsWith(data, ch) == InScanOrder(CellSet(data, ch))

\* load_tiles: self.tiles holds one square per cell of this set, in scan order
SolidCells(data) == CellSet(data, "#")

\* load_tiles: coin_positions, one per C cell, centred in the cell
coin_positions(data) ==
  LET cs == CellsWith(data, "C")
  IN  [i \in 1..Len(cs) |->
         [x |-> cs[i][2] * TILE_SIZE + TILE_SIZE \div 2 - 10,
          y |-> cs[i][1] * TILE_SIZE + TILE_SIZE \div 2 - 10]]

\* load_tiles: koopa_positions, one per K cell, at the cell's top-left
koopa_positions(data) ==
  LET ks == CellsWith(data, "K")
  IN  [i \in 1..Len(ks) |->
         [x |-> ks[i][2] * TILE_SIZE, y |-> ks[i][1] * TILE_SIZE]]

\* load_tiles: tiles, one TILE_SIZE square per # cell
IsSolid(data, row, col) == CellChar(data, row, col) = "#"

TileRect(row, col) ==
  [x |-> col * TILE_SIZE, y |-> row * TILE_SIZE, w |-> TILE_SIZE, h |-> TILE_SIZE]

\* ------------------------------------------------------------------------
\* pygame.Rect
\* ------------------------------------------------------------------------
Rect(x, y, w, h) == [x |-> x, y |-> y, w |-> w, h |-> h]

colliderect(a, b) ==
  /\ a.w > 0 /\ a.h > 0 /\ b.w > 0 /\ b.h > 0
  /\ a.x < b.x + b.w
  /\ a.y < b.y + b.h
  /\ a.x + a.w > b.x
  /\ a.y + a.h > b.y

\* Rect.centery
centery(r) == r.y + r.h \div 2

\* Assigning a float to a Rect attribute keeps the integer part (C cast);
\* n is the float in tenths.
Trunc10(n) == IF n >= 0 THEN n \div 10 ELSE -((-n) \div 10)

\* The tiles of `data` that overlap rect r, as <<row, col>>.  Only the cells
\* under r can overlap it, so the scan `for tile in tiles` is taken over them.
TilesHit(data, r) ==
  IF r.w <= 0 \/ r.h <= 0 THEN {}
  ELSE {rc \in ((r.y \div TILE_SIZE)..((r.y + r.h - 1) \div TILE_SIZE))
               \X ((r.x \div TILE_SIZE)..((r.x + r.w - 1) \div TILE_SIZE)) :
          IsSolid(data, rc[1], rc[2])}

\* the tiles after position `after` in the list that overlap r
HitsAfter(data, r, after) ==
  {rc \in TilesHit(data, r) : after = <<>> \/ Before(after, rc)}

\* ------------------------------------------------------------------------
\* Entity
\* ------------------------------------------------------------------------
\* Entity.apply_gravity
\* faulty variant: no terminal fall speed
apply_gravityUncapped(vy) == vy + GRAVITY

apply_gravity(vy) == IF vy + GRAVITY > V_MAX THEN V_MAX ELSE vy + GRAVITY

\* Entity.check_collisions_x: e has x, y, h, vx; the loop continues after a
\* hit with the moved rect and vel.x = 0
RECURSIVE CollideX(_, _, _)
CollideX(data, e, after) ==
  LET hits == HitsAfter(data, Rect(e.x, e.y, BODY_W, e.h), after)
  IN  IF hits = {} THEN e
      ELSE LET t == FirstOf(hits)
               tile == TileRect(t[1], t[2])
               nx == IF e.vx > 0 THEN tile.x - BODY_W
                     ELSE IF e.vx < 0 THEN tile.x + tile.w
                     ELSE e.x
           IN  CollideX(data, [e EXCEPT !.x = nx, !.vx = 0], t)

check_collisions_x(data, e) == CollideX(data, e, <<>>)

\* Entity.check_collisions_y
RECURSIVE CollideY(_, _, _)
CollideY(data, e, after) ==
  LET hits == HitsAfter(data, Rect(e.x, e.y, BODY_W, e.h), after)
  IN  IF hits = {} THEN e
      ELSE LET t == FirstOf(hits)
               tile == TileRect(t[1], t[2])
           IN  IF e.vy > 0
               THEN CollideY(data, [e EXCEPT !.y = tile.y - e.h, !.vy = 0,
                                             !.on_ground = TRUE], t)
               ELSE IF e.vy < 0
               THEN CollideY(data, [e EXCEPT !.y = tile.y + tile.h, !.vy = 0], t)
               ELSE CollideY(data, e, t)

check_collisions_y(data, e) ==
  CollideY(data, [e EXCEPT !.on_ground = FALSE], <<>>)

\* ------------------------------------------------------------------------
\* Player
\* ------------------------------------------------------------------------
\* The keys update reads: "L" = K_LEFT or K_a, "R" = K_RIGHT or K_d,
\* "J" = K_SPACE or K_w, "X" = K_x
AllKeys == {"L", "R", "J", "X"}

\* Player.__init__ (Entity.__init__ with the 32x32 player image)
PlayerInit ==
  [x |-> START_X, y |-> START_Y, h |-> BODY_H, vx |-> 0, vy |-> 0,
   on_ground |-> FALSE, shell_state |-> FALSE, shell_timer |-> 0,
   dash_speed |-> 0]

Sign(v) == IF v > 0 THEN 1 ELSE IF v < 0 THEN -1 ELSE 0

\* Player.update: gravity, vel.x from the direction keys, the jump
PlayerKeys(p, keys) ==
  [p EXCEPT !.vx = (IF "L" \in keys THEN -PLAYER_SPEED * 10 ELSE 0)
                   + (IF "R" \in keys THEN PLAYER_SPEED * 10 ELSE 0),
            !.vy = IF "J" \in keys /\ p.on_ground THEN JUMP_STRENGTH
                   ELSE apply_gravity(p.vy)]

\* faulty variant: the shell keeps the top edge of the body
PlayerShellEnterTop(p, keys) ==
  IF "X" \in keys /\ ~p.shell_state
  THEN [p EXCEPT !.shell_state = TRUE, !.shell_timer = PLAYER_SHELL_TICKS,
                 !.h = SHELL_H,
                 !.dash_speed = PLAYER_SPEED * 2]
  ELSE p

\* Player.update: K_x outside shell mode enters it
PlayerShellEnter(p, keys) ==
  IF "X" \in keys /\ ~p.shell_state
  THEN [p EXCEPT !.shell_state = TRUE, !.shell_timer = PLAYER_SHELL_TICKS,
                 !.h = SHELL_H, !.y = p.y + 8,
                 !.dash_speed = PLAYER_SPEED * 2]
  ELSE p

\* faulty variant: shell mode ends one update late
PlayerShellEndLate(p) ==
  IF p.shell_timer < 0
  THEN [p EXCEPT !.shell_state = FALSE, !.h = BODY_H, !.y = p.y - 8,
                 !.dash_speed = 0]
  ELSE p

\* Player.update: shell mode ends when the timer has run down
PlayerShellEnd(p) ==
  IF p.shell_timer <= 0
  THEN [p EXCEPT !.shell_state = FALSE, !.h = BODY_H, !.y = p.y - 8,
                 !.dash_speed = 0]
  ELSE p

\* Player.update: in shell mode vel.x *= 1.2 and the timer counts down
PlayerShellTick(p) ==
  IF p.shell_state
  THEN PlayerShellEnd([p EXCEPT !.vx = (p.vx * 12) \div 10,
                                !.shell_timer = p.shell_timer - 1])
  ELSE p

\* Player.update: rect.x += vel.x + dash_speed * sign(vel.x)
PlayerStepX(p) ==
  [p EXCEPT !.x = Trunc10(p.x * 10 + p.vx + p.dash_speed * 10 * Sign(p.vx))]

\* Player.update: rect.y += vel.y
PlayerStepY(p) == [p EXCEPT !.y = Trunc10(p.y * 10 + p.vy)]

\* Player.update, up to and including the horizontal move (before
\* check_collisions_x)
PlayerMove(p, keys) ==
  PlayerStepX(PlayerShellTick(PlayerShellEnter(PlayerKeys(p, keys), keys)))

\* Player.update, up to and including check_collisions_x
PlayerResolveX(data, p, keys) == check_collisions_x(data, PlayerMove(p, keys))

\* Player.update
PlayerUpdate(data, p, keys) ==
  check_collisions_y(data, PlayerStepY(PlayerResolveX(data, p, keys)))

\* ------------------------------------------------------------------------
\* Koopa
\* ------------------------------------------------------------------------
\* Koopa.__init__
KoopaInit(pos) ==
  [x |-> pos.x, y |-> pos.y, h |-> BODY_H, vx |-> 0, vy |-> 0,
   on_ground |-> FALSE, direction |-> 1, shell |-> FALSE, shell_timer |-> 0]

\* Koopa.update: the speed picked from the shell flag
KoopaVx(k) ==
  IF ~k.shell THEN KOOPA_SPEED * k.direction * 10
  ELSE KOOPA_SHELL_SPEED * k.direction * 10

\* Koopa.update: the wall loop stops at the first tile hit (break)
KoopaWall(data, k) ==
  LET hits == TilesHit(data, Rect(k.x, k.y, BODY_W, k.h))
  IN  IF hits = {} THEN k
      ELSE LET t == FirstOf(hits)
               tile == TileRect(t[1], t[2])
           IN  [k EXCEPT !.x = IF k.vx > 0 THEN tile.x - BODY_W ELSE tile.x + tile.w,
                         !.direction = -k.direction]

\* faulty variant: a ledge probe of no height, which overlaps nothing
KoopaEdgeFlat(data, k) ==
  LET edge_check == Rect(k.x + Trunc10(k.vx), k.y + k.h, BODY_W, 0)
  IN  IF k.on_ground /\ TilesHit(data, edge_check) = {}
      THEN [k EXCEPT !.direction = -k.direction]
      ELSE k

\* Koopa.update: the ledge probe, taken only when on_ground
KoopaEdge(data, k) ==
  LET edge_check == Rect(k.x + Trunc10(k.vx), k.y + k.h, BODY_W, 2)
  IN  IF k.on_ground /\ TilesHit(data, edge_check) = {}
      THEN [k EXCEPT !.direction = -k.direction]
      ELSE k

\* faulty variant: the shell ends one update late
KoopaTimerLate(k) ==
  IF k.shell
  THEN LET q == [k EXCEPT !.shell_timer = k.shell_timer - 1]
       IN  IF q.shell_timer < 0 THEN [q EXCEPT !.shell = FALSE] ELSE q
  ELSE k

\* Koopa.update: the shell timer
KoopaTimer(k) ==
  IF k.shell
  THEN LET q == [k EXCEPT !.shell_timer = k.shell_timer - 1]
       IN  IF q.shell_timer <= 0 THEN [q EXCEPT !.shell = FALSE] ELSE q
  ELSE k

\* Koopa.update
KoopaStepX(k) == [k EXCEPT !.x = k.x + Trunc10(k.vx)]

KoopaStepY(k) == [k EXCEPT !.y = Trunc10(k.y * 10 + k.vy)]

\* Koopa.update, up to and including the wall loop
KoopaMoveX(data, k) ==
  KoopaWall(data,
    KoopaStepX([k EXCEPT !.vy = apply_gravity(k.vy), !.vx = KoopaVx(k)]))

KoopaUpdate(data, k) ==
  KoopaTimer(check_collisions_y(data,
    KoopaStepY(KoopaEdge(data, KoopaMoveX(data, k)))))

\* faulty variant: a stomp starts the longer kick timer
stompKickTimer(k) == [k EXCEPT !.shell = TRUE, !.shell_timer = KICK_TICKS, !.vx = 0]

\* Koopa.stomp
stomp(k) == [k EXCEPT !.shell = TRUE, !.shell_timer = STOMP_TICKS, !.vx = 0]

\* faulty variant: a kick starts the shorter stomp timer
kickStompTimer(k, direction) ==
  [k EXCEPT !.shell = TRUE, !.shell_timer = STOMP_TICKS, !.direction = direction,
            !.vx = KOOPA_SHELL_SPEED * direction * 10, !.vy = KICK_VY]

\* faulty variant: a kick leaves the timer as it is
kickKeepsTimer(k, direction) ==
  [k EXCEPT !.shell = TRUE, !.direction = direction,
            !.vx = KOOPA_SHELL_SPEED * direction * 10, !.vy = KICK_VY]

\* Koopa.kick
kick(k, direction) ==
  [k EXCEPT !.shell = TRUE, !.shell_timer = KICK_TICKS, !.direction = direction,
            !.vx = KOOPA_SHELL_SPEED * direction * 10, !.vy = KICK_VY]

\* ------------------------------------------------------------------------
\* GameManager
\* ------------------------------------------------------------------------
\* GameManager's own current_world / current_level attributes.  __init__ and
\* load_level never assign them (the level indices are module globals), so
\* they start undefined.
NoAttrs == [defined |-> FALSE, current_world |-> 0, current_level |-> 0]

\* faulty variant: the player is created anew
LoadGridNewPlayer(wl, data, p) ==
  [current_world |-> wl[1], current_level |-> wl[2],
   tile_map |-> [world |-> wl[1], level |-> wl[2],
                 width |-> TileMapInit(data).width,
                 height |-> TileMapInit(data).height],
   player |-> PlayerInit,
   coins |-> coin_positions(data),
   koopas |-> [i \in 1..Len(koopa_positions(data)) |->
                 KoopaInit(koopa_positions(data)[i])]]

\* GameManager.load_level: the module-level load_level, a fresh TileMap of
\* get_level(), the player moved to the start with zero velocity, coins and
\* koopas rebuilt from the grid
LoadGrid(wl, data, p) ==
  [current_world |-> wl[1], current_level |-> wl[2],
   tile_map |-> [world |-> wl[1], level |-> wl[2],
                 width |-> TileMapInit(data).width,
                 height |-> TileMapInit(data).height],
   player |-> [p EXCEPT !.x = START_X, !.y = START_Y, !.vx = 0, !.vy = 0],
   coins |-> coin_positions(data),
   koopas |-> [i \in 1..Len(koopa_positions(data)) |->
                 KoopaInit(koopa_positions(data)[i])]]

LoadGlobals(wl, p) == LoadGrid(wl, get_level(wl[1], wl[2]), p)

GameManagerLoad(world, level, p) == LoadGlobals(load_level(world, level), p)

\* the grid a TileMap was built from
DataOf(tm) == get_level(tm.world, tm.level)

\* pg.sprite.spritecollide(self.player, group, ...): the members whose rect
\* overlaps the player's, in group order
PlayerRect(p) == Rect(p.x, p.y, BODY_W, p.h)
KoopaRect(k) == Rect(k.x, k.y, BODY_W, k.h)
CoinRect(c) == Rect(c.x, c.y, COIN_SIZE, COIN_SIZE)

Indices(n) == [i \in 1..n |-> i]

KoopasHit(p, ks) ==
  SelectSeq(Indices(Len(ks)),
            LAMBDA i : colliderect(PlayerRect(p), KoopaRect(ks[i])))

CoinsHit(p, cs) ==
  SelectSeq(Indices(Len(cs)),
            LAMBDA i : colliderect(PlayerRect(p), CoinRect(cs[i])))

\* GameManager.update, "Enemy interactions": one iteration of the loop for
\* koopa i.  s carries player, koopas, score, lives, the log of this tick's
\* encounters and whether update has returned False.
StompTest(p, k) == p.vy > 0 /\ p.y + p.h < centery(KoopaRect(k))

KickDirection(p) == IF p.vx > 0 THEN 1 ELSE -1

\* the hurt branch's respawn: rect.topleft = (100, 100), vel = Vector2(0, 0)
\* faulty variant: only the position and vel.y are reset
RespawnKeepsVx(p) == [p EXCEPT !.x = START_X, !.y = START_Y, !.vy = 0]

Respawn(p) == [p EXCEPT !.x = START_X, !.y = START_Y, !.vx = 0, !.vy = 0]

\* the stomp branch's bounce: vel.y = JUMP_STRENGTH * 0.7
Bounce(p) == [p EXCEPT !.vy = (JUMP_STRENGTH * 7) \div 10]

\* faulty variant: the game ends only when lives drop below 0
ResolveBelowZero(s, i) ==
  IF StompTest(s.player, s.koopas[i])
  THEN [s EXCEPT !.koopas[i] = stomp(s.koopas[i]),
                 !.player = Bounce(s.player),
                 !.score = s.score + STOMP_SCORE,
                 !.kind = "stomp"]
  ELSE IF s.player.shell_state
  THEN [s EXCEPT !.koopas[i] = kick(s.koopas[i], KickDirection(s.player)),
                 !.score = s.score + KICK_SCORE,
                 !.kind = "kick"]
  ELSE IF s.lives - 1 < 0
  THEN [s EXCEPT !.lives = s.lives - 1, !.returned = TRUE,
                 !.kind = "hurt"]
  ELSE [s EXCEPT !.lives = s.lives - 1,
                 !.player = Respawn(s.player),
                 !.kind = "hurt"]

\* the branch taken for koopa i
Resolve(s, i) ==
  IF StompTest(s.player, s.koopas[i])
  THEN [s EXCEPT !.koopas[i] = stomp(s.koopas[i]),
                 !.player = Bounce(s.player),
                 !.score = s.score + STOMP_SCORE,
                 !.kind = "stomp"]
  ELSE IF s.player.shell_state
  THEN [s EXCEPT !.koopas[i] = kick(s.koopas[i], KickDirection(s.player)),
                 !.score = s.score + KICK_SCORE,
                 !.kind = "kick"]
  ELSE IF s.lives - 1 <= 0
  THEN [s EXCEPT !.lives = s.lives - 1, !.returned = TRUE,
                 !.kind = "hurt"]
  ELSE [s EXCEPT !.lives = s.lives - 1,
                 !.player = Respawn(s.player),
                 !.kind = "hurt"]

\* history: what the iteration for koopa i saw (s) and what it left (t)
Logged(s, i, t) ==
  [t EXCEPT !.events =
     Append(s.events,
            [k |-> i, kind |-> t.kind,
             pbefore |-> s.player, pafter |-> t.player,
             kbefore |-> s.koopas[i], kafter |-> t.koopas[i],
             koopas_before |-> s.koopas, koopas_after |-> t.koopas,
             lives_before |-> s.lives, lives_after |-> t.lives,
             score_before |-> s.score, score_after |-> t.score])]

Encounter(s, i) == Logged(s, i, Resolve(s, i))

RECURSIVE Encounters(_, _, _)
Encounters(s, hits, j) ==
  IF j > Len(hits) \/ s.returned THEN s
  ELSE Encounters(Encounter(s, hits[j]), hits, j + 1)

\* GameManager.update, "Level complete check": self.current_level and
\* self.current_world are attributes of the GameManager instance (the level
\* indices live in module globals), so the increment reads an attribute that
\* may not exist.  Result: what update does after the encounters.
\* faulty variant: the margin itself already completes the level
LevelCompleteTestInclusive(p, tm) ==
  p.x >= tm.width * TILE_SIZE - LEVEL_END_MARGIN

LevelCompleteTest(p, tm) == p.x > tm.width * TILE_SIZE - LEVEL_END_MARGIN

LevelComplete(attrs) ==
  IF ~attrs.defined
  THEN [outcome |-> "AttributeError", attrs |-> attrs]
  ELSE LET l1 == attrs.current_level + 1
           wrap == l1 >= NumLevels(attrs.current_world)
           w == IF wrap THEN attrs.current_world + 1 ELSE attrs.current_world
           l == IF wrap THEN 0 ELSE l1
           a == [attrs EXCEPT !.current_world = w, !.current_level = l]
       IN  IF w >= NumWorlds
           THEN [outcome |-> "won", attrs |-> a]
           ELSE [outcome |-> "load", attrs |-> a]

\* GameManager.__init__: Player(100, 100), load_level(0, 0), score 0, lives 3
NewGame(ld) ==
  [player |-> ld.player, koopas |-> ld.koopas, coins |-> ld.coins,
   score |-> 0, lives |-> START_LIVES,
   current_world |-> ld.current_world, current_level |-> ld.current_level,
   tile_map |-> ld.tile_map,
   attrs |-> NoAttrs]

GameManagerInit == NewGame(GameManagerLoad(0, 0, PlayerInit))

\* GameManager.update: self.player.update(...), then koopa.update(...) for
\* every koopa
UpdateSprites(g, keys) ==
  [g EXCEPT !.player = PlayerUpdate(DataOf(g.tile_map), g.player, keys),
            !.koopas = [i \in 1..Len(g.koopas) |->
                          KoopaUpdate(DataOf(g.tile_map), g.koopas[i])]]

\* GameManager.update, "Coin collection": spritecollide(..., True) removes
\* the coins hit, each adds 50
\* faulty variant: spritecollide(..., False) leaves the coins in the group
CoinsKeptAll(p, cs) == cs

CoinsKept(p, cs) ==
  LET kept == SelectSeq(Indices(Len(cs)),
                        LAMBDA i : ~colliderect(PlayerRect(p), CoinRect(cs[i])))
  IN  [j \in 1..Len(kept) |-> cs[kept[j]]]

CollectCoins(g) ==
  [g EXCEPT !.coins = CoinsKept(g.player, g.coins),
            !.score = g.score + COIN_SCORE * Len(CoinsHit(g.player, g.coins))]

\* GameManager.update, "Enemy interactions": the loop over the koopas hit
EnemyLoop(g) ==
  Encounters([player |-> g.player, koopas |-> g.koopas, score |-> g.score,
              lives |-> g.lives, events |-> <<>>, returned |-> FALSE,
              kind |-> "none"],
             KoopasHit(g.player, g.koopas), 1)

\* GameManager.update, "Level complete check", taken when the test is true
\* and the increment went through; ld is what self.load_level(...) builds
Reloaded(g, a, ld) ==
  [g EXCEPT !.attrs = a, !.player = ld.player, !.koopas = ld.koopas,
            !.coins = ld.coins, !.current_world = ld.current_world,
            !.current_level = ld.current_level, !.tile_map = ld.tile_map]

\* the end of update: g is the session after the enemy loop, lc the outcome
\* of the completion branch, info the history of this update
Conclude(g, returned, test, lc, info) ==
  IF returned
  THEN [g |-> g, outcome |-> "False", info |-> info]
  ELSE IF ~test
  THEN [g |-> g, outcome |-> "True", info |-> info]
  ELSE IF lc.outcome = "AttributeError"
  THEN [g |-> g, outcome |-> "AttributeError", info |-> info]
  ELSE IF lc.outcome = "won"
  THEN [g |-> [g EXCEPT !.attrs = lc.attrs], outcome |-> "False", info |-> info]
  ELSE [g |-> Reloaded(g, lc.attrs,
                       GameManagerLoad(lc.attrs.current_world,
                                       lc.attrs.current_level, g.player)),
        outcome |-> "True", info |-> info]

\* g0: the session before update, g2: after the sprites' updates and the
\* coin collection, s: after the enemy loop
AfterEnemies(g0, keys, g2, s) ==
  Conclude([g2 EXCEPT !.player = s.player, !.koopas = s.koopas,
                      !.score = s.score, !.lives = s.lives],
           s.returned,
           ~s.returned /\ LevelCompleteTest(s.player, g0.tile_map),
           LevelComplete(g0.attrs),
           [keys |-> keys, events |-> s.events,
            collected |-> Len(g0.coins) - Len(g2.coins),
            coin_award |-> g2.score - g0.score,
            hits |-> KoopasHit(g2.player, g2.koopas),
            koopas_integrated |-> g2.koopas, lives_before |-> g0.lives,
            coins_integrated |-> g2.coins,
            moved |-> PlayerMove(g0.player, keys), integrated |-> g2.player,
            after_x |-> PlayerResolveX(DataOf(g0.tile_map), g0.player, keys),
            koopas_after_x |-> [i \in 1..Len(g0.koopas) |->
                                  KoopaMoveX(DataOf(g0.tile_map), g0.koopas[i])],
            checked |-> ~s.returned, check_x |-> s.player.x,
            level_test |-> ~s.returned /\ LevelCompleteTest(s.player, g0.tile_map),
            before |-> <<g0.current_world, g0.current_level>>])

AfterSprites(g0, keys, g2) == AfterEnemies(g0, keys, g2, EnemyLoop(g2))

\* GameManager.update with the pressed keys `keys`, from session state g.
\* outcome: "True" / "False" (the value returned) or the exception raised.
GameManagerUpdate(g, keys) ==
  AfterSprites(g, keys, CollectCoins(UpdateSprites(g, keys)))

\* ------------------------------------------------------------------------
\* The session: main() and its environment
\* ------------------------------------------------------------------------
VARIABLES
  player,         \* GameManager.player (rect, vel, on_ground, shell fields)
  koopas,         \* GameManager.koopas, in insertion order
  coins,          \* GameManager.coins, in insertion order
  score,          \* GameManager.score
  lives,          \* GameManager.lives
  current_world,  \* module global current_world
  current_level,  \* module global current_level
  tile_map,       \* GameManager.tile_map
  attrs,          \* GameManager's current_world / current_level attributes
  running,        \* main(): running
  raised,         \* the exception that ended main(), or "none"
  last,           \* what the latest update did (history)
  ghost,          \* per koopa: updates since it was last stomped or kicked (history)
  hist,           \* coin score and coins of this level load, age of shell mode (history)
  script,         \* the key schedule the player follows (environment)
  tick,           \* updates executed so far (history)
  unit_in,        \* a level table handed to TileMap on its own
  unit_out        \* what TileMap made of it (status "pending" before the call)

vars == <<player, koopas, coins, score, lives, current_world, current_level,
          tile_map, attrs, running, raised, last, ghost, hist, script, tick,
          unit_in, unit_out>>

\* The GameManager instance and the globals, as one record
Session ==
  [player |-> player, koopas |-> koopas, coins |-> coins, score |-> score,
   lives |-> lives, current_world |-> current_world,
   current_level |-> current_level, tile_map |-> tile_map, attrs |-> attrs]

\* Free ticks: ticks in which the player may press any combination of keys
FreeTicks == 3

Hold(keys, n) == [keys |-> keys, n |-> n, free |-> FALSE]
Free(n) == [keys |-> {}, n |-> n, free |-> TRUE]

\* Key schedules: the keys held tick by tick, from the start of the session
Scripts ==
  << \* 1: any keys from the first tick
     <<Free(FreeTicks)>>,
     \* 2-4: dash right along the floor, step back, and arrive at
     \* x = 2461, 2460, 2459 (level width 80 * 32 = 2560, margin 100)
     <<Hold({"R", "X"}, 1), Hold({"R"}, 122), Hold({"L"}, 14), Hold({"R"}, 16)>>,
     <<Hold({"R", "X"}, 1), Hold({"R"}, 122), Hold({"L"}, 15), Hold({"R"}, 17),
       Hold({}, 1), Hold({"R"}, 1)>>,
     <<Hold({"R", "X"}, 1), Hold({"R"}, 122), Hold({"L"}, 16), Hold({"R"}, 18),
       Hold({}, 1), Hold({"R"}, 1)>>,
     \* 5: walk right into the koopa on the floor, three times
     <<Hold({"R"}, 152)>>,
     \* 6: jump onto the koopa on the floor, then stand still
     <<Hold({"R"}, 5), Hold({}, 20), Hold({"R", "J"}, 30), Hold({"R"}, 19),
       Hold({}, 200)>>,
     \* 7: dash right, kick the far koopa off the end of the floor, stand still
     <<Hold({"R", "X"}, 1), Hold({"R"}, 122), Hold({}, 305)>>,
     \* 8: dash past the near koopa, stop in its path
     <<Hold({"R", "X"}, 20), Hold({}, 120)>>,
     \* 9: dash past the near koopa, dash back into it
     <<Hold({"R", "X"}, 30), Hold({"L"}, 20)>>,
     \* 10: shell up, land on the near koopa, touch it again
     <<Hold({"X"}, 8), Hold({"R", "J", "X"}, 10), Hold({}, 2)>>,
     \* 11-14: any keys next to a koopa, next to the end of the level, and
     \* on the last life
     <<Hold({"R"}, 30), Free(FreeTicks)>>,
     <<Hold({"X"}, 8), Hold({"R", "J", "X"}, 8), Free(FreeTicks)>>,
     <<Hold({"R", "X"}, 1), Hold({"R"}, 122), Hold({"L"}, 14), Hold({"R"}, 15),
       Free(FreeTicks)>>,
     <<Hold({"R"}, 150), Free(FreeTicks)>>,
     \* 15-16: dash and jump to the coin above the third platform, then any
     \* keys around the pickup, or stay where it was
     <<Hold({"R", "J", "X"}, 40), Hold({"R", "J"}, 15), Hold({"R", "J", "X"}, 21),
       Free(FreeTicks)>>,
     <<Hold({"R", "J", "X"}, 40), Hold({"R", "J"}, 15), Hold({"R", "J", "X"}, 23),
       Hold({}, 3)>>,
     \* 17: no key at all: the player drops to the floor and stays there
     <<Hold({}, 30)>>,
     \* 18-19: shell up, stop under the third platform, and jump so that
     \* shell mode runs out while the player is right below the platform
     <<Hold({"R", "X"}, 1), Hold({"R"}, 44), Hold({}, 249), Hold({"J"}, 1),
       Hold({}, 6)>>,
     <<Hold({"R", "X"}, 1), Hold({"R"}, 44), Hold({}, 251), Hold({"J"}, 1),
       Hold({}, 5)>>,
     \* 20: dash past the near koopa and stand where the two koopas cross
     <<Hold({"R", "X"}, 46), Hold({}, 255), Hold({"R"}, 107), Hold({}, 262)>>,
     \* 21: walk into the near koopa, then stand where the two koopas cross
     <<Hold({"R"}, 40), Hold({"R", "X"}, 46), Hold({}, 220), Hold({"R"}, 100),
       Hold({}, 45)>>,
     \* 22: walk into the near koopa twice, then stand where the two cross
     <<Hold({"R"}, 81), Hold({"R", "X"}, 46), Hold({}, 200), Hold({"R"}, 61),
       Hold({}, 70)>>,
     \* 23: shell up, land on the near koopa, kick it, land on it again
     <<Hold({"X"}, 8), Hold({"R", "J", "X"}, 10), Hold({"R"}, 1), Hold({}, 13),
       Hold({"R"}, 26), Hold({}, 10)>> >>

RECURSIVE SegmentAt(_, _, _)
SegmentAt(segs, j, t) ==
  IF j > Len(segs) THEN [keys |-> {}, n |-> 0, free |-> FALSE, done |-> TRUE]
  ELSE IF t < segs[j].n THEN segs[j] @@ [done |-> FALSE]
  ELSE SegmentAt(segs, j + 1, t - segs[j].n)

\* the key sets the player may hold in update number t + 1
KeysAt(sc, t) ==
  LET seg == SegmentAt(Scripts[sc], 1, t)
  IN  IF seg.done THEN {}
      ELSE IF seg.free THEN SUBSET AllKeys
      ELSE {seg.keys}

NoInfo ==
  [keys |-> {}, events |-> <<>>, collected |-> 0, coin_award |-> 0,
   hits |-> <<>>, koopas_integrated |-> <<>>, lives_before |-> START_LIVES,
   coins_integrated |-> <<>>,
   moved |-> PlayerInit, integrated |-> PlayerInit,
   after_x |-> PlayerInit, koopas_after_x |-> <<>>,
   checked |-> FALSE, check_x |-> START_X, level_test |-> FALSE, before |-> <<0, 0>>,
   outcome |-> "none", ghost_before |-> <<>>]

GhostInit(n) == [i \in 1..n |-> [age |-> 0, from |-> "none"]]

\* history of a level load: the coins it spawned, the score they have
\* awarded; shell_age: Player.update calls since shell mode was entered,
\* the entering call included (0: never entered); landed_top: per koopa, the
\* height of its feet when an update first left it on_ground (-1: not yet)
HistInit(g) ==
  [spawned |-> Len(g.coins), coin_score |-> 0, shell_age |-> 0,
   landed_top |-> [i \in 1..Len(g.koopas) |-> -1]]

\* p: the player before the update, r: what GameManagerUpdate returned
HistAfter(h, p, r) ==
  [spawned |-> IF r.info.level_test /\ r.outcome = "True"
               THEN Len(r.g.coins) ELSE h.spawned,
   coin_score |-> IF r.info.level_test /\ r.outcome = "True"
                  THEN 0 ELSE h.coin_score + r.info.coin_award,
   shell_age |-> IF "X" \in r.info.keys /\ ~p.shell_state THEN 1
                 ELSE IF h.shell_age > 0 THEN h.shell_age + 1
                 ELSE 0,
   landed_top |-> [i \in 1..Len(r.g.koopas) |->
                     IF r.info.level_test /\ r.outcome = "True" THEN -1
                     ELSE IF h.landed_top[i] >= 0 THEN h.landed_top[i]
                     ELSE IF r.g.koopas[i].on_ground
                          THEN r.g.koopas[i].y + r.g.koopas[i].h
                     ELSE -1]]

\* history: every koopa has been updated once more; a stomp or kick restarts
\* the count
GhostAfter(gh, events) ==
  [i \in 1..Len(gh) |->
     IF \E j \in 1..Len(events) :
          events[j].k = i /\ events[j].kind \in {"stomp", "kick"}
     THEN [age |-> 0,
           from |-> events[CHOOSE j \in 1..Len(events) : events[j].k = i].kind]
     ELSE [gh[i] EXCEPT !.age = gh[i].age + 1]]

\* main(): game_manager = GameManager(); running = True
Init ==
  \E g \in {GameManagerInit} :
    /\ player = g.player
    /\ koopas = g.koopas
    /\ coins = g.coins
    /\ score = g.score
    /\ lives = g.lives
    /\ current_world = g.current_world
    /\ current_level = g.current_level
    /\ tile_map = g.tile_map
    /\ attrs = g.attrs
    /\ running = TRUE
    /\ raised = "none"
    /\ last = NoInfo
    /\ ghost = GhostInit(Len(g.koopas))
    /\ hist = HistInit(g)
    /\ script \in 1..Len(Scripts)
    /\ tick = 0
    /\ unit_in = <<>>
    /\ unit_out = [status |-> "none"]

\* One iteration of the loop in main(): the event poll (quit: a QUIT or
\* ESCAPE event was queued), then game_manager.update().  An exception
\* leaves main() and ends the process.
Iteration(keys, quit) ==
  \E r \in {GameManagerUpdate(Session, keys)} :
    /\ player' = r.g.player
    /\ koopas' = r.g.koopas
    /\ coins' = r.g.coins
    /\ score' = r.g.score
    /\ lives' = r.g.lives
    /\ current_world' = r.g.current_world
    /\ current_level' = r.g.current_level
    /\ tile_map' = r.g.tile_map
    /\ attrs' = r.g.attrs
    /\ raised' = IF r.outcome \in {"True", "False"} THEN "none" ELSE r.outcome
    /\ running' = (~quit /\ r.outcome = "True")
    /\ last' = r.info @@ [outcome |-> r.outcome, ghost_before |-> ghost]
    /\ ghost' = IF r.info.level_test /\ r.outcome = "True"
                THEN GhostInit(Len(r.g.koopas))
                ELSE GhostAfter(ghost, r.info.events)
    /\ hist' = HistAfter(hist, player, r)
    /\ tick' = tick + 1
    /\ UNCHANGED <<script, unit_in, unit_out>>

\* an iteration without a quit event
Tick ==
  /\ running /\ raised = "none"
  /\ \E keys \in KeysAt(script, tick) : Iteration(keys, FALSE)

\* an iteration that polls a QUIT / ESCAPE event: update still runs once
QuitTick ==
  /\ running /\ raised = "none"
  /\ \E keys \in KeysAt(script, tick) : Iteration(keys, TRUE)

Next == Tick \/ QuitTick

Spec == Init /\ [][Next]_vars

\* ------------------------------------------------------------------------
\* TileMap on its own: TileMap(data) followed by load_tiles(), for level
\* tables other than the one the session starts with
\* ------------------------------------------------------------------------
MaxRows == 2
MaxCols == 2
Chars == {".", "#", "C", "K"}

RECURSIVE RowsUpTo(_)
RowsUpTo(n) ==
  IF n = 0 THEN {""}
  ELSE RowsUpTo(n - 1) \cup {r \o c : r \in RowsUpTo(n - 1), c \in Chars}
SmallTables == UNION {[1..m -> RowsUpTo(MaxCols)] : m \in 0..MaxRows}
WorldTables == UNION {{WORLDS[w][l] : l \in 1..Len(WORLDS[w])} : w \in 1..NumWorlds}
BuildInputs == SmallTables \cup WorldTables

\* TileMap(data); load_tiles()
BuildTileMap(data) ==
  LET tm == TileMapInit(data)
  IN  IF tm.error # "none"
      THEN [status |-> "done", error |-> tm.error]
      ELSE [status |-> "done", error |-> "none", width |-> tm.width, height |-> tm.height,
            tiles |-> {TileRect(rc[1], rc[2]) : rc \in SolidCells(data)},
            coin_positions |-> coin_positions(data),
            koopa_positions |-> koopa_positions(data)]

InitBuild ==
  \E g \in {GameManagerInit} :
    /\ player = g.player
    /\ koopas = g.koopas
    /\ coins = g.coins
    /\ score = g.score
    /\ lives = g.lives
    /\ current_world = g.current_world
    /\ current_level = g.current_level
    /\ tile_map = g.tile_map
    /\ attrs = g.attrs
    /\ running = FALSE
    /\ raised = "none"
    /\ last = NoInfo
    /\ ghost = GhostInit(Len(g.koopas))
    /\ hist = HistInit(g)
    /\ script = 1
    /\ tick = 0
    /\ unit_in \in BuildInputs
    /\ unit_out = [status |-> "pending"]

Build ==
  /\ unit_out.status = "pending"
  /\ unit_out' = BuildTileMap(unit_in)
  /\ UNCHANGED <<player, koopas, coins, score, lives, current_world,
                 current_level, tile_map, attrs, running, raised, last, ghost,
                 hist,
                 script, tick, unit_in>>

NextBuild == Build

SpecBuild == InitBuild /\ [][NextBuild]_vars

\* ------------------------------------------------------------------------
\* Entity.check_collisions_y on its own: a body with zero velocity on the
\* grid of the first level, resolved once and twice in succession
\* ------------------------------------------------------------------------
MaxRestY == 200
RestXs == {100, 640, 930, 1000}

\* bodies at rest: on the floor (y + h = 224), under and beside the third
\* platform, in the air; normal and shell height
\* overlapping no tile; on_ground only with a tile directly beneath
RestBodies ==
  {[PlayerInit EXCEPT !.x = x, !.y = y, !.h = h, !.on_ground = og] :
     x \in RestXs, y \in 160..MaxRestY, h \in {BODY_H, SHELL_H}, og \in BOOLEAN}

RestData == get_level(0, 0)

RestInputs ==
  {b \in RestBodies :
     /\ TilesHit(RestData, Rect(b.x, b.y, BODY_W, b.h)) = {}
     /\ b.on_ground => TilesHit(RestData, Rect(b.x, b.y + b.h, BODY_W, 1)) # {}}

InitRest ==
  \E g \in {GameManagerInit} :
    /\ player = g.player
    /\ koopas = g.koopas
    /\ coins = g.coins
    /\ score = g.score
    /\ lives = g.lives
    /\ current_world = g.current_world
    /\ current_level = g.current_level
    /\ tile_map = g.tile_map
    /\ attrs = g.attrs
    /\ running = FALSE
    /\ raised = "none"
    /\ last = NoInfo
    /\ ghost = GhostInit(Len(g.koopas))
    /\ hist = HistInit(g)
    /\ script = 1
    /\ tick = 0
    /\ unit_in \in RestInputs
    /\ unit_out = [status |-> "pending"]

RestResolve ==
  /\ unit_out.status = "pending"
  /\ unit_out' =
       [status |-> "done",
        once |-> check_collisions_y(DataOf(tile_map), unit_in),
        twice |-> check_collisions_y(DataOf(tile_map),
                    check_collisions_y(DataOf(tile_map), unit_in))]
  /\ UNCHANGED <<player, koopas, coins, score, lives, current_world,
                 current_level, tile_map, attrs, running, raised, last, ghost,
                 hist, script, tick, unit_in>>

NextRest == RestResolve

SpecRest == InitRest /\ [][NextRest]_vars

\* ------------------------------------------------------------------------
\* Koopa.update on a platform three tiles wide with a drop at either end
\* ------------------------------------------------------------------------
\* the K cell is MaxDrop rows at most above the platform's top row
MaxDrop == 2

\* the platform starts MaxLeft columns at most from the left border
MaxLeft == 2

\* the platform: three solid cells in a row
PLATFORM == "###"

RECURSIVE Dots(_)
Dots(n) == IF n = 0 THEN "" ELSE "." \o Dots(n - 1)

\* a level table: the K cell in row 0 above the middle tile, the platform in
\* row `drop` from column `left` on, empty cells around it
PatrolGrid(drop, left) ==
  [r \in 1..(drop + 2) |->
     IF r = 1 THEN Dots(left + 1) \o "K" \o Dots(2)
     ELSE IF r = drop + 1 THEN Dots(left) \o PLATFORM \o "."
     ELSE Dots(left + Len(PLATFORM) + 1)]

PatrolInputs ==
  {[data |-> PatrolGrid(d, l), left |-> l * TILE_SIZE, top |-> d * TILE_SIZE] :
     d \in 1..MaxDrop, l \in 1..MaxLeft}

\* Koopa(x, y) at the K cell, with the bookkeeping of its reversals
PatrolStart(in) ==
  [status |-> "patrol", k |-> KoopaInit(koopa_positions(in.data)[1]),
   wall_flip |-> FALSE, edge_flip |-> FALSE,
   checks |-> <<FALSE, FALSE>>, since_mid |-> 0, arrived_with |-> -1,
   landed |-> FALSE]

Flips(k, m, e) ==
  (IF m.direction # k.direction THEN 1 ELSE 0)
  + (IF e.direction # m.direction THEN 1 ELSE 0)

\* one Koopa.update: k before, m after the wall loop, e after the ledge
\* probe, n after the whole update
PatrolAfter(in, o, k, m, e, n) ==
  [status |-> "patrol", k |-> n,
   wall_flip |-> m.direction # k.direction,
   edge_flip |-> e.direction # m.direction,
   checks |-> IF m.on_ground THEN <<o.checks[2], e.direction # m.direction>>
              ELSE o.checks,
   since_mid |-> IF n.x = in.left + TILE_SIZE THEN 0
                 ELSE o.since_mid + Flips(k, m, e),
   arrived_with |-> IF n.x = in.left + TILE_SIZE
                    THEN o.since_mid + Flips(k, m, e) ELSE -1,
   landed |-> o.landed \/ n.on_ground]

PatrolUpdate(in, o) ==
  PatrolAfter(in, o, o.k, KoopaMoveX(in.data, o.k),
              KoopaEdge(in.data, KoopaMoveX(in.data, o.k)),
              KoopaUpdate(in.data, o.k))

InitPatrol ==
  \E g \in {GameManagerInit} :
    /\ player = g.player
    /\ koopas = g.koopas
    /\ coins = g.coins
    /\ score = g.score
    /\ lives = g.lives
    /\ current_world = g.current_world
    /\ current_level = g.current_level
    /\ tile_map = g.tile_map
    /\ attrs = g.attrs
    /\ running = FALSE
    /\ raised = "none"
    /\ last = NoInfo
    /\ ghost = GhostInit(Len(g.koopas))
    /\ hist = HistInit(g)
    /\ script = 1
    /\ tick = 0
    /\ unit_in \in PatrolInputs
    /\ unit_out = PatrolStart(unit_in)

PatrolStep ==
  /\ unit_out.status = "patrol"
  /\ unit_out' = PatrolUpdate(unit_in, unit_out)
  /\ UNCHANGED <<player, koopas, coins, score, lives, current_world,
                 current_level, tile_map, attrs, running, raised, last, ghost,
                 hist, script, tick, unit_in>>

NextPatrol == PatrolStep

SpecPatrol == InitPatrol /\ [][NextPatrol]_vars

\* ------------------------------------------------------------------------
\* koopahdr.py: the earlier variant of the engine.  Its level tables hold no
\* K and no C cell and GameManager.__init__ spawns nothing, so
\* GameManager.update comes down to Player.update.  Velocities are in tenths
\* of a pixel per update, as above.
\* ------------------------------------------------------------------------
HDR_GRAVITY == 5
HDR_V_MAX == 50
HDR_JUMP_STRENGTH == -100
HDR_PLAYER_SPEED == 5
HDR_START_X == 200
HDR_START_Y == 64

\* WORLDS[0][0], the level GameManager.__init__ builds its TileMap from
HdrLevel ==
  << "................................................................................",
     "................................................................................",
     "................................................................................",
     "..................###...........................................................",
     "..............................................###...............................",
     ".............................###................................................",
     "................................................................................",
     "################################################################################" >>

\* Player(200, 64)
HdrPlayerInit ==
  [x |-> HDR_START_X, y |-> HDR_START_Y, h |-> BODY_H, vx |-> 0, vy |-> 0,
   on_ground |-> FALSE, jumping |-> FALSE, shell_state |-> FALSE,
   shell_timer |-> 0]

\* Player.update: gravity, capped
HdrGravity(p) ==
  [p EXCEPT !.vy = IF p.vy + HDR_GRAVITY > HDR_V_MAX THEN HDR_V_MAX
                   ELSE p.vy + HDR_GRAVITY]

\* Player.update: K_LEFT, elif K_RIGHT, else 0
HdrRun(p, keys) ==
  [p EXCEPT !.vx = IF "L" \in keys THEN -HDR_PLAYER_SPEED * 10
                   ELSE IF "R" \in keys THEN HDR_PLAYER_SPEED * 10
                   ELSE 0]

\* Player.update: K_SPACE and on_ground
HdrJump(p, keys) ==
  IF "J" \in keys /\ p.on_ground
  THEN [p EXCEPT !.vy = HDR_JUMP_STRENGTH, !.on_ground = FALSE,
                 !.jumping = TRUE]
  ELSE p

\* Player.update up to the jump
HdrIntent(p, keys) == HdrJump(HdrRun(HdrGravity(p), keys), keys)

HdrStepX(p) == [p EXCEPT !.x = p.x + Trunc10(p.vx)]

HdrStepY(p) == [p EXCEPT !.y = Trunc10(p.y * 10 + p.vy)]

\* Player.check_collisions: one pass over tile_map.tiles in list order, each
\* tile tested against the rect as the earlier hits have left it
RECURSIVE HdrCollide(_, _, _, _)
HdrCollide(data, p, direction, after) ==
  LET hits == HitsAfter(data, Rect(p.x, p.y, BODY_W, p.h), after)
  IN  IF hits = {} THEN p
      ELSE LET t == FirstOf(hits)
               tile == TileRect(t[1], t[2])
           IN  IF direction = "horizontal"
               THEN HdrCollide(data,
                      [p EXCEPT !.x = IF p.vx > 0 THEN tile.x - BODY_W
                                      ELSE IF p.vx < 0 THEN tile.x + tile.w
                                      ELSE p.x],
                      direction, t)
               ELSE IF p.vy > 0
               THEN HdrCollide(data,
                      [p EXCEPT !.y = tile.y - p.h, !.vy = 0,
                                !.on_ground = TRUE, !.jumping = FALSE],
                      direction, t)
               ELSE IF p.vy < 0
               THEN HdrCollide(data,
                      [p EXCEPT !.y = tile.y + tile.h, !.vy = 0], direction, t)
               ELSE HdrCollide(data, p, direction, t)

\* Player.update: the shell timer (nothing sets shell_state in this variant)
HdrShellTimer(p) ==
  IF p.shell_state
  THEN IF p.shell_timer - 1 <= 0
       THEN [p EXCEPT !.shell_timer = p.shell_timer - 1, !.shell_state = FALSE]
       ELSE [p EXCEPT !.shell_timer = p.shell_timer - 1]
  ELSE p

\* Player.update
HdrPlayerUpdate(data, p, keys) ==
  HdrShellTimer(
    HdrCollide(data,
      HdrStepY(HdrCollide(data, HdrStepX(HdrIntent(p, keys)),
                          "horizontal", <<>>)),
      "vertical", <<>>))

\* the keys Player.update reads: "L" = K_LEFT, "R" = K_RIGHT, "J" = K_SPACE
HdrAllKeys == {"L", "R", "J"}

\* Key schedules for this variant, with no event in the queue
HdrScripts ==
  << \* 1: any keys from the first update
     <<Free(FreeTicks)>>,
     \* 2: land on the floor, walk left past its end, then any keys
     <<Hold({}, 35), Hold({"L"}, 50), Free(FreeTicks)>>,
     \* 3-4: walk right, jump onto the platform of row 5, walk off its right
     \* end; then press jump in the second update of the fall, or any keys
     <<Hold({}, 31), Hold({"R"}, 120), Hold({"R", "J"}, 1), Hold({"R"}, 45),
       Hold({"R", "J"}, 1), Hold({"R"}, 3)>>,
     <<Hold({}, 31), Hold({"R"}, 120), Hold({"R", "J"}, 1), Hold({"R"}, 44),
       Free(FreeTicks)>> >>

HdrKeysAt(sc, t) ==
  IF SegmentAt(HdrScripts[sc], 1, t).done THEN {}
  ELSE IF SegmentAt(HdrScripts[sc], 1, t).free THEN SUBSET HdrAllKeys
  ELSE {SegmentAt(HdrScripts[sc], 1, t).keys}

\* GameManager(): the player, and the record of the latest update
HdrStart ==
  [status |-> "hdr", player |-> HdrPlayerInit, before |-> HdrPlayerInit,
   intent |-> HdrPlayerInit, keys |-> {}, updates |-> 0]

\* main(): one iteration; GameManager.update runs Player.update
HdrAfter(o, keys) ==
  [status |-> "hdr", player |-> HdrPlayerUpdate(HdrLevel, o.player, keys),
   before |-> o.player, intent |-> HdrIntent(o.player, keys), keys |-> keys,
   updates |-> o.updates + 1]

InitHdr ==
  \E g \in {GameManagerInit} :
    /\ player = g.player
    /\ koopas = g.koopas
    /\ coins = g.coins
    /\ score = g.score
    /\ lives = g.lives
    /\ current_world = g.current_world
    /\ current_level = g.current_level
    /\ tile_map = g.tile_map
    /\ attrs = g.attrs
    /\ running = FALSE
    /\ raised = "none"
    /\ last = NoInfo
    /\ ghost = GhostInit(Len(g.koopas))
    /\ hist = HistInit(g)
    /\ script = 1
    /\ tick = 0
    /\ unit_in \in 1..Len(HdrScripts)
    /\ unit_out = HdrStart

HdrTick ==
  /\ unit_out.status = "hdr"
  /\ \E keys \in HdrKeysAt(unit_in, unit_out.updates) :
       unit_out' = HdrAfter(unit_out, keys)
  /\ UNCHANGED <<player, koopas, coins, score, lives, current_world,
                 current_level, tile_map, attrs, running, raised, last, ghost,
                 hist, script, tick, unit_in>>

NextHdr == HdrTick

SpecHdr == InitHdr /\ [][NextHdr]_vars

\* ------------------------------------------------------------------------
\* koopahdr.py: the whole session.  load_tiles spawns a Koopa per K cell,
\* but none of the level tables koopahdr.py ships holds one; the sessions
\* below run on the shipped tables and on the same tables with two K cells
\* put into level 0-0.
\* ------------------------------------------------------------------------
HDR_KOOPA_SPEED == 1
HDR_KOOPA_SHELL_SPEED == 8
HDR_KICK_TICKS == 180
HDR_KICK_VY == -50
HDR_STOMP_SCORE == 100
HDR_KICK_SCORE == 50
HDR_START_LIVES == 3
HDR_FEET_UP == 5
HDR_FEET_H == 10

\* WORLDS[0][1] and WORLDS[0][2]
HdrFloorLevel ==
  << "................................................................................",
     "................................................................................",
     "................................................................................",
     "................................................................................",
     "................................................................................",
     "................................................................................",
     "................................................................................",
     "################################################################################" >>

\* the one level of each placeholder world
HdrSolidLevel ==
  [r \in 1..8 |->
     "################################################################################"]

\* WORLDS
HdrWORLDS ==
  << <<HdrLevel, HdrFloorLevel, HdrFloorLevel>>,
     <<HdrSolidLevel>>, <<HdrSolidLevel>>, <<HdrSolidLevel>>, <<HdrSolidLevel>> >>

\* level 0-0 with a K cell in rows 5 and 6 of column 9
HdrLevelK ==
  << "................................................................................",
     "................................................................................",
     "................................................................................",
     "..................###...........................................................",
     "..............................................###...............................",
     ".........K...................###................................................",
     ".........K......................................................................",
     "################################################################################" >>

HdrWorldsK ==
  << <<HdrLevelK, HdrFloorLevel, HdrFloorLevel>>,
     <<HdrSolidLevel>>, <<HdrSolidLevel>>, <<HdrSolidLevel>>, <<HdrSolidLevel>> >>

HdrTables == {"shipped", "with K"}

HdrWorldsOf(tables) == IF tables = "shipped" THEN HdrWORLDS ELSE HdrWorldsK

\* get_level()'s fallback: a list holding one list of eight rows
HdrFallback == << [r \in 1..8 |-> Dots(80)] >>

\* get_level()
HdrGetLevel(W, world, level) ==
  IF 0 <= world /\ world < Len(W) /\ 0 <= level /\ level < Len(W[world + 1])
  THEN W[world + 1][level + 1]
  ELSE HdrFallback

\* load_level(world, level): the globals current_world, current_level
HdrLoadLevel(W, world, level) ==
  IF 0 <= world /\ world < Len(W)
  THEN IF 0 <= level /\ level < Len(W[world + 1])
       THEN [current_world |-> world, current_level |-> level]
       ELSE [current_world |-> world, current_level |-> 0]
  ELSE [current_world |-> 0, current_level |-> 0]

\* Koopa(x, y); live: member of the groups koopas and enemies
HdrKoopaInit(pos) ==
  [x |-> pos.x, y |-> pos.y, h |-> BODY_H, vx |-> 0, vy |-> 0,
   direction |-> 1, shell |-> FALSE, shell_timer |-> 0, live |-> TRUE,
   updates |-> 0]

\* Koopa.update: the step ahead, undone unless a tile is hit
HdrKoopaStep(data, e) ==
  IF TilesHit(data, Rect(e.x + Trunc10(e.vx), e.y, BODY_W, e.h)) = {}
  THEN e
  ELSE [e EXCEPT
          !.x = IF e.direction = 1
                THEN TileRect(FirstOf(TilesHit(data,
                       Rect(e.x + Trunc10(e.vx), e.y, BODY_W, e.h)))[1],
                       FirstOf(TilesHit(data,
                       Rect(e.x + Trunc10(e.vx), e.y, BODY_W, e.h)))[2]).x
                     - BODY_W
                ELSE TileRect(FirstOf(TilesHit(data,
                       Rect(e.x + Trunc10(e.vx), e.y, BODY_W, e.h)))[1],
                       FirstOf(TilesHit(data,
                       Rect(e.x + Trunc10(e.vx), e.y, BODY_W, e.h)))[2]).x
                     + TILE_SIZE,
          !.direction = -e.direction]

\* Koopa.update: gravity, capped, and the fall
HdrKoopaFall(e) == HdrStepY(HdrGravity(e))

\* Koopa.check_collisions: the first tile hit stops the fall; vel.y is 0 for
\* the tiles after it
HdrKoopaLand(data, e) ==
  IF e.vy > 0 /\ TilesHit(data, Rect(e.x, e.y, BODY_W, e.h)) # {}
  THEN [e EXCEPT
          !.y = FirstOf(TilesHit(data, Rect(e.x, e.y, BODY_W, e.h)))[1]
                  * TILE_SIZE - e.h,
          !.vy = 0]
  ELSE e

\* Koopa.update: the shell timer
HdrKoopaTimer(e) ==
  IF e.shell
  THEN IF e.shell_timer - 1 <= 0
       THEN [e EXCEPT !.shell_timer = e.shell_timer - 1, !.shell = FALSE]
       ELSE [e EXCEPT !.shell_timer = e.shell_timer - 1]
  ELSE e

\* Koopa.update
HdrKoopaUpdate(data, e) ==
  [HdrKoopaTimer(HdrKoopaLand(data, HdrKoopaFall(HdrKoopaStep(data,
     [e EXCEPT !.vx = HDR_KOOPA_SPEED * e.direction * 10]))))
   EXCEPT !.updates = e.updates + 1]

\* Koopa.kick
HdrKick(e) ==
  [e EXCEPT !.shell = TRUE, !.shell_timer = HDR_KICK_TICKS,
            !.direction = IF e.vx < 0 THEN 1 ELSE -1,
            !.vx = (IF e.vx < 0 THEN 1 ELSE -1) * HDR_KOOPA_SHELL_SPEED * 10,
            !.vy = HDR_KICK_VY]

\* GameManager.__init__: the player alone in all_sprites, no koopa spawned;
\* sprites: the koopas in all_sprites, in the order they were added
HdrGameInit ==
  [player |-> HdrPlayerInit, sprites |-> <<>>, score |-> 0,
   lives |-> HDR_START_LIVES, current_world |-> 0, current_level |-> 0,
   tile_world |-> 0, tile_level |-> 0]

\* koopas.empty(), enemies.empty(): the koopas stay in all_sprites
HdrEmptied(sprites) ==
  [i \in 1..Len(sprites) |-> [sprites[i] EXCEPT !.live = FALSE]]

HdrSpawned(data) ==
  [i \in 1..Len(koopa_positions(data)) |-> HdrKoopaInit(koopa_positions(data)[i])]

\* GameManager.load_level(world, level)
HdrGameLoadAt(W, g, cur) ==
  [g EXCEPT !.current_world = cur.current_world,
            !.current_level = cur.current_level,
            !.tile_world = cur.current_world,
            !.tile_level = cur.current_level,
            !.player = [g.player EXCEPT !.x = HDR_START_X, !.y = HDR_START_Y,
                                        !.vy = 0],
            !.sprites = HdrEmptied(g.sprites)
                        \o HdrSpawned(HdrGetLevel(W, cur.current_world,
                                                  cur.current_level))]

HdrGameLoad(W, g, world, level) ==
  HdrGameLoadAt(W, g, HdrLoadLevel(W, world, level))

\* the table self.tile_map was built from
HdrData(W, g) == HdrGetLevel(W, g.tile_world, g.tile_level)

\* GameManager.update: all_sprites.update(tile_map), which reaches the
\* player and every koopa in all_sprites, then koopas.update(tile_map),
\* which reaches the koopas of the group koopas once more
HdrUpdateSprites(W, g, keys) ==
  [g EXCEPT !.player = HdrPlayerUpdate(HdrData(W, g), g.player, keys),
            !.sprites = [i \in 1..Len(g.sprites) |->
                           IF g.sprites[i].live
                           THEN HdrKoopaUpdate(HdrData(W, g),
                                  HdrKoopaUpdate(HdrData(W, g), g.sprites[i]))
                           ELSE HdrKoopaUpdate(HdrData(W, g), g.sprites[i])]]

\* player_feet
HdrFeet(p) == Rect(p.x, p.y + p.h - HDR_FEET_UP, BODY_W, HDR_FEET_H)

\* GameManager.update: the body of the loop for enemy i; s.killed: the
\* koopas enemy.kill() has taken out of every group
HdrResolve(s, i) ==
  IF colliderect(KoopaRect(s.sprites[i]), HdrFeet(s.player)) /\ s.player.vy > 0
  THEN [s EXCEPT !.killed = s.killed \cup {i},
                 !.player.vy = (HDR_JUMP_STRENGTH * 8) \div 10,
                 !.score = s.score + HDR_STOMP_SCORE,
                 !.events = Append(s.events, [kind |-> "stomp", k |-> i])]
  ELSE IF colliderect(PlayerRect(s.player), KoopaRect(s.sprites[i]))
  THEN IF s.player.shell_state
       THEN [s EXCEPT !.sprites[i] = HdrKick(s.sprites[i]),
                      !.score = s.score + HDR_KICK_SCORE,
                      !.events = Append(s.events, [kind |-> "kick", k |-> i])]
       ELSE IF s.lives - 1 <= 0
       THEN [s EXCEPT !.lives = s.lives - 1, !.returned = TRUE,
                      !.events = Append(s.events, [kind |-> "hurt", k |-> i])]
       ELSE [s EXCEPT !.lives = s.lives - 1,
                      !.player.x = HDR_START_X, !.player.y = HDR_START_Y,
                      !.player.vy = 0,
                      !.events = Append(s.events, [kind |-> "hurt", k |-> i])]
  ELSE s

\* GameManager.update: for enemy in self.enemies
RECURSIVE HdrEncounters(_, _)
HdrEncounters(s, i) ==
  IF i > Len(s.sprites) \/ s.returned THEN s
  ELSE IF s.sprites[i].live THEN HdrEncounters(HdrResolve(s, i), i + 1)
  ELSE HdrEncounters(s, i + 1)

HdrLoopStart(g) ==
  [player |-> g.player, sprites |-> g.sprites, score |-> g.score,
   lives |-> g.lives, killed |-> {}, returned |-> FALSE, events |-> <<>>]

HdrAlive(s) ==
  SelectSeq([i \in 1..Len(s.sprites) |-> [k |-> s.sprites[i], dead |-> i \in s.killed]],
            LAMBDA r : ~r.dead)

\* GameManager.update: what it leaves, what it returns, and the record of
\* what happened in it
HdrConclude(g, g1, s) ==
  [g |-> [g EXCEPT !.player = s.player,
                   !.sprites = [j \in 1..Len(HdrAlive(s)) |-> HdrAlive(s)[j].k],
                   !.score = s.score, !.lives = s.lives],
   returned |-> ~s.returned,
   info |-> [events |-> s.events, integrated |-> g1.player,
             sprites_integrated |-> g1.sprites, before |-> g]]

HdrGameUpdate(W, g, keys) ==
  HdrConclude(g, HdrUpdateSprites(W, g, keys),
              HdrEncounters(HdrLoopStart(HdrUpdateSprites(W, g, keys)), 1))

\* main(): the KEYDOWN events polled before the update.  "none"; a number
\* key "1".."5" (world select); "level": K_7, K_8 or K_9, which reads
\* game_manager.current_world, an attribute GameManager never sets; "quit"
HdrWorldKeys == <<"1", "2", "3", "4", "5">>

IsWorldKey(ev) == \E i \in 1..Len(HdrWorldKeys) : HdrWorldKeys[i] = ev

\* e.key - K_1
HdrWorldOfKey(ev) == (CHOOSE i \in 1..Len(HdrWorldKeys) : HdrWorldKeys[i] = ev) - 1

HdrOn(ev, n) == [keys |-> {}, n |-> n, free |-> FALSE, event |-> ev]

HdrSegment(seg) ==
  IF "event" \in DOMAIN seg THEN seg ELSE seg @@ [event |-> "none"]

\* Key and event schedules of a session
HdrGameScripts ==
  << \* 1: select world 1 (level 0-0 again), then any keys
     <<HdrOn("1", 1), Free(FreeTicks)>>,
     \* 2: stand still while the koopas of the level drop to the floor
     <<HdrOn("1", 1), Hold({}, 40)>>,
     \* 3: walk right along the floor into the koopas' column, again and
     \* again
     <<HdrOn("1", 1), Hold({}, 34), Hold({"R"}, 12), Hold({}, 34), Hold({"R"}, 12),
       Hold({}, 34), Hold({"R"}, 14)>>,
     \* 4: the same, one update later
     <<HdrOn("1", 1), Hold({}, 35), Hold({"R"}, 12), Hold({}, 35), Hold({"R"}, 12),
       Hold({}, 35), Hold({"R"}, 14)>>,
     \* 5: select the world again after the koopas have landed, then a
     \* placeholder world
     <<HdrOn("1", 1), Hold({}, 20), HdrOn("1", 1), Hold({}, 20), HdrOn("2", 1),
       Hold({"R", "J"}, 5)>>,
     \* 6: a level key
     <<Hold({}, 3), HdrOn("level", 1), Hold({}, 3)>>,
     \* 7: a quit event
     <<HdrOn("1", 1), Hold({"R"}, 3), HdrOn("quit", 1), Hold({}, 3)>>,
     \* 8: no world selected: the session stays as GameManager() left it
     <<Hold({}, 34), Hold({"R"}, 30), Free(FreeTicks)>>,
     \* 9: walk into the koopas' column, any keys at the contact
     <<HdrOn("1", 1), Hold({}, 34), Hold({"R"}, 10), Free(FreeTicks)>> >>

HdrStepAt(sc, t) == HdrSegment(SegmentAt(HdrGameScripts[sc], 1, t))

HdrGameKeysAt(sc, t) ==
  IF HdrStepAt(sc, t).done THEN {}
  ELSE IF HdrStepAt(sc, t).free THEN SUBSET HdrAllKeys
  ELSE {HdrStepAt(sc, t).keys}

HdrNoInfo ==
  [events |-> <<>>, integrated |-> HdrPlayerInit, sprites_integrated |-> <<>>,
   before |-> HdrGameInit]

\* game_manager = GameManager(); running = True
HdrSessionStart ==
  [status |-> "running", g |-> HdrGameInit, info |-> HdrNoInfo,
   event |-> "none", keys |-> {}, loaded |-> FALSE, iterations |-> 0]

\* the event handling of one iteration
HdrAfterEvent(W, g, ev) ==
  IF IsWorldKey(ev) THEN HdrGameLoad(W, g, HdrWorldOfKey(ev), 0) ELSE g

\* main(): one iteration of the loop.  A level key raises AttributeError
\* and ends the process before the update; otherwise the update runs, and
\* the loop ends on a quit event or when update returns False
HdrIterate(W, o, ev, keys, r) ==
  IF ev = "level"
  THEN [o EXCEPT !.status = "AttributeError", !.event = ev, !.keys = keys,
                 !.loaded = FALSE, !.iterations = o.iterations + 1]
  ELSE [status |-> IF ev = "quit" \/ ~r.returned THEN "ended" ELSE "running",
        g |-> r.g, info |-> r.info, event |-> ev, keys |-> keys,
        loaded |-> IsWorldKey(ev), iterations |-> o.iterations + 1]

HdrIteration(W, o, ev, keys) ==
  HdrIterate(W, o, ev, keys, HdrGameUpdate(W, HdrAfterEvent(W, o.g, ev), keys))

InitHdrGame ==
  \E g \in {GameManagerInit} :
    /\ player = g.player
    /\ koopas = g.koopas
    /\ coins = g.coins
    /\ score = g.score
    /\ lives = g.lives
    /\ current_world = g.current_world
    /\ current_level = g.current_level
    /\ tile_map = g.tile_map
    /\ attrs = g.attrs
    /\ running = FALSE
    /\ raised = "none"
    /\ last = NoInfo
    /\ ghost = GhostInit(Len(g.koopas))
    /\ hist = HistInit(g)
    /\ script = 1
    /\ tick = 0
    /\ unit_in \in [tables : HdrTables, script : 1..Len(HdrGameScripts)]
    /\ unit_out = HdrSessionStart

HdrGameTick ==
  /\ unit_out.status = "running"
  /\ \E keys \in HdrGameKeysAt(unit_in.script, unit_out.iterations) :
       unit_out' = HdrIteration(HdrWorldsOf(unit_in.tables), unit_out,
                                HdrStepAt(unit_in.script, unit_out.iterations).event,
                                keys)
  /\ UNCHANGED <<player, koopas, coins, score, lives, current_world,
                 current_level, tile_map, attrs, running, raised, last, ghost,
                 hist, script, tick, unit_in>>

NextHdrGame == HdrGameTick

SpecHdrGame == InitHdrGame /\ [][NextHdrGame]_vars

\* ---------------------------------------------------------------------
\* koopahdr.py: load_level(world, level) on its own, for any pair of
\* indices from -MaxIndex to MaxIndex, on the shipped table WORLDS
\* ---------------------------------------------------------------------
MaxIndex == 6

LoadInputs == [world : (-MaxIndex)..MaxIndex, level : (-MaxIndex)..MaxIndex]

\* the module globals before the call: current_world = 0, current_level = 0
LoadStart == [status |-> "pending", current_world |-> 0, current_level |-> 0]

InitHdrLoad ==
  \E g \in {GameManagerInit} :
    /\ player = g.player
    /\ koopas = g.koopas
    /\ coins = g.coins
    /\ score = g.score
    /\ lives = g.lives
    /\ current_world = g.current_world
    /\ current_level = g.current_level
    /\ tile_map = g.tile_map
    /\ attrs = g.attrs
    /\ running = FALSE
    /\ raised = "none"
    /\ last = NoInfo
    /\ ghost = GhostInit(Len(g.koopas))
    /\ hist = HistInit(g)
    /\ script = 1
    /\ tick = 0
    /\ unit_in \in LoadInputs
    /\ unit_out = LoadStart

HdrLoadCall ==
  /\ unit_out.status = "pending"
  /\ unit_out' = [status |-> "done"]
                   @@ HdrLoadLevel(HdrWORLDS, unit_in.world, unit_in.level)
  /\ UNCHANGED <<player, koopas, coins, score, lives, current_world,
                 current_level, tile_map, attrs, running, raised, last, ghost,
                 hist, script, tick, unit_in>>

NextHdrLoad == HdrLoadCall

SpecHdrLoad == InitHdrLoad /\ [][NextHdrLoad]_vars

\* ---------------------------------------------------------------------
\* load_level(world, level) called again and again, in either file, with
\* any pair of indices from -MaxIndex to MaxIndex: the module globals
\* current_world and current_level, and what get_level() returns for them
\* ---------------------------------------------------------------------
MaxCalls == 2

Variants == {"KoopaHDR1", "koopahdr"}

\* current_world = 0, current_level = 0 at import
GlobalsStart ==
  [status |-> "loads", current_world |-> 0, current_level |-> 0, calls |-> 0,
   asked |-> [world |-> 0, level |-> 0]]

\* load_level(world, level) of the file
LoadLevelOf(variant, world, level) ==
  IF variant = "KoopaHDR1"
  THEN [current_world |-> load_level(world, level)[1],
        current_level |-> load_level(world, level)[2]]
  ELSE HdrLoadLevel(HdrWORLDS, world, level)

\* get_level() of the file, for the globals as they are
GetLevelOf(variant, o) ==
  IF variant = "KoopaHDR1"
  THEN get_level(o.current_world, o.current_level)
  ELSE HdrGetLevel(HdrWORLDS, o.current_world, o.current_level)

\* WORLDS of the file
WorldsOf(variant) == IF variant = "KoopaHDR1" THEN WORLDS ELSE HdrWORLDS

InitLoads ==
  \E g \in {GameManagerInit} :
    /\ player = g.player
    /\ koopas = g.koopas
    /\ coins = g.coins
    /\ score = g.score
    /\ lives = g.lives
    /\ current_world = g.current_world
    /\ current_level = g.current_level
    /\ tile_map = g.tile_map
    /\ attrs = g.attrs
    /\ running = FALSE
    /\ raised = "none"
    /\ last = NoInfo
    /\ ghost = GhostInit(Len(g.koopas))
    /\ hist = HistInit(g)
    /\ script = 1
    /\ tick = 0
    /\ unit_in \in Variants
    /\ unit_out = GlobalsStart

LoadCall ==
  /\ unit_out.status = "loads"
  /\ unit_out.calls < MaxCalls
  /\ \E a \in LoadInputs :
       unit_out' = [status |-> "loads", calls |-> unit_out.calls + 1, asked |-> a]
                    @@ LoadLevelOf(unit_in, a.world, a.level)
  /\ UNCHANGED <<player, koopas, coins, score, lives, current_world,
                 current_level, tile_map, attrs, running, raised, last, ghost,
                 hist, script, tick, unit_in>>

NextLoads == LoadCall

SpecLoads == InitLoads /\ [][NextLoads]_vars

\* ------------------------------------------------------------------------
\* Properties
\* ------------------------------------------------------------------------
\* the encounters resolved by the latest update, in order
Events == last.events
EventIds == 1..Len(last.events)

\* the stomp condition of an encounter, from what the iteration saw
Stompable(e) ==
  e.pbefore.vy > 0 /\ e.pbefore.y + e.pbefore.h < e.kbefore.y + e.kbefore.h \div 2

\* x beyond which the level the update started on is complete
LimitOf(wl) ==
  Len(get_level(wl[1], wl[2])[1]) * TILE_SIZE - LEVEL_END_MARGIN

SameLevel == <<current_world, current_level>> = last.before

\* C1: whenever a tick ends with the player's x beyond width*TILE_SIZE - 100,
\* the session moves to level+1 of the same world if there is one, else to
\* level 0 of world+1 if there is one, else update returns False; in the
\* first two cases the new level is loaded and update returns True.
C1_LevelAdvances ==
  (last.checked /\ last.check_x > LimitOf(last.before)) =>
    LET w == last.before[1]
        l == last.before[2]
    IN  IF l + 1 < NumLevels(w)
        THEN /\ last.outcome = "True"
             /\ <<current_world, current_level>> = <<w, l + 1>>
             /\ <<tile_map.world, tile_map.level>> = <<w, l + 1>>
        ELSE IF w + 1 < NumWorlds
        THEN /\ last.outcome = "True"
             /\ <<current_world, current_level>> = <<w + 1, 0>>
             /\ <<tile_map.world, tile_map.level>> = <<w + 1, 0>>
        ELSE last.outcome = "False"

\* C2: no update fails at run time: every update returns True or False,
\* whatever keys are held and whatever encounter or completion it resolves.
C2_NoRuntimeFailure == raised = "none" /\ last.outcome \in {"none", "True", "False"}

\* C3: level completion has a strict threshold: an update that reaches the
\* completion check with x <= width*32 - 100 (in particular x = limit - 1 and
\* x = limit) returns True on the same level; one that reaches it with
\* x > limit (in particular x = limit + 1) takes the completion branch and
\* does not simply return True on the same level.
C3_StrictThreshold ==
  last.checked =>
    /\ last.check_x <= LimitOf(last.before) =>
         ~last.level_test /\ last.outcome = "True" /\ SameLevel
    /\ last.check_x > LimitOf(last.before) =>
         last.level_test /\ ~(last.outcome = "True" /\ SameLevel)

C3_Witness ==
  last.checked /\ last.check_x = LimitOf(last.before) + 1 /\ last.level_test

\* the two sides of the threshold that must not complete the level
C3_AtLimit == last.checked /\ last.check_x = LimitOf(last.before)
C3_BelowLimit == last.checked /\ last.check_x = LimitOf(last.before) - 1

\* C4: building the tile grid fails, and no session starts, whenever the
\* row sequence is empty or two rows differ in length.
Malformed(data) ==
  Len(data) = 0 \/ \E i, j \in 1..Len(data) : Len(data[i]) # Len(data[j])

C4_MalformedRejected ==
  (unit_out.status = "done" /\ Malformed(unit_in)) => unit_out.error # "none"

\* C5: an encounter in which neither the stomp test nor the player's shell
\* mode applies takes exactly one life; if none is left update returns False
\* and the loop stops; otherwise the player is at (100, 100) with zero
\* velocity when that encounter is resolved.
C5_DamagePath ==
  /\ \A j \in EventIds :
       LET e == Events[j]
       IN  (~Stompable(e) /\ ~e.pbefore.shell_state) =>
             /\ e.kind = "hurt"
             /\ e.lives_after = e.lives_before - 1
             /\ IF e.lives_after <= 0
                THEN j = Len(Events) /\ last.outcome = "False" /\ ~running
                ELSE /\ <<e.pafter.x, e.pafter.y>> = <<START_X, START_Y>>
                     /\ <<e.pafter.vx, e.pafter.vy>> = <<0, 0>>
  /\ Len(Events) > 0 => lives = Events[Len(Events)].lives_after
  /\ lives <= 0 => ~running

C5_Witness ==
  \E j \in EventIds :
    /\ Events[j].kind = "hurt" /\ Events[j].lives_after > 0
    /\ Events[j].pbefore.vx # 0 /\ Events[j].pbefore.vy # 0

\* the last life lost
C5_GameOver == \E j \in EventIds : Events[j].kind = "hurt" /\ lives = 0

\* C6: an encounter that passes the stomp test (player falling, bottom edge
\* above the enemy's vertical centre) shells the enemy with shell_timer 180,
\* sets the player's vertical velocity to JUMP_STRENGTH * 0.7 = -8.4, adds
\* exactly 100 to score and takes no life, also when the player is in shell
\* mode (the stomp test comes before the kick and hurt branches).
C6_Stomp ==
  \A j \in EventIds :
    LET e == Events[j]
    IN  Stompable(e) =>
          /\ e.kind = "stomp"
          /\ e.kafter.shell /\ e.kafter.shell_timer = STOMP_TICKS
          /\ e.pafter.vy = (JUMP_STRENGTH * 7) \div 10
          /\ e.score_after = e.score_before + STOMP_SCORE
          /\ e.lives_after = e.lives_before
          /\ koopas[e.k] = e.kafter

C6_Witness ==
  \E j \in EventIds : Stompable(Events[j]) /\ Events[j].kind = "stomp"

\* a stomp by a player in shell mode
C6_ShellStomp ==
  \E j \in EventIds : Stompable(Events[j]) /\ Events[j].pbefore.shell_state

\* C7: a stomped enemy is a stationary shell: until it is kicked or its
\* timer runs out, no update changes its horizontal position.
C7_IdleShellStationary ==
  [][\A i \in 1..Len(koopas) :
       (koopas[i].shell /\ ghost[i].from = "stomp" /\ Len(koopas') = Len(koopas))
         => koopas'[i].x = koopas[i].x]_vars

\* C8: a kick (player in shell mode, stomp test failed) sends the enemy in
\* direction +1 when the player's horizontal velocity is > 0, -1 when it is
\* < 0, and +1 when it is exactly 0.
C8_KickDirection ==
  \A j \in EventIds :
    LET e == Events[j]
    IN  (~Stompable(e) /\ e.pbefore.shell_state) =>
          /\ e.kind = "kick"
          /\ e.kafter.direction = IF e.pbefore.vx > 0 THEN 1
                                  ELSE IF e.pbefore.vx < 0 THEN -1
                                  ELSE 1

\* C9: a kick by a player moving right (shell mode, horizontal velocity > 0)
\* leaves the enemy with direction +1, horizontal velocity
\* +KOOPA_SHELL_SPEED, vertical velocity -5, shell set and shell_timer 300,
\* and adds 200 to score.
C9_KickOutcome ==
  \A j \in EventIds :
    LET e == Events[j]
    IN  (~Stompable(e) /\ e.pbefore.shell_state /\ e.pbefore.vx > 0) =>
          /\ e.kind = "kick"
          /\ e.kafter.direction = 1
          /\ e.kafter.vx = KOOPA_SHELL_SPEED * 10
          /\ e.kafter.vy = KICK_VY
          /\ e.kafter.shell /\ e.kafter.shell_timer = KICK_TICKS
          /\ e.score_after = e.score_before + KICK_SCORE
          /\ koopas[e.k] = e.kafter

\* the kicked enemy is one that was stomped and has not been kicked since
C9_Witness ==
  \E j \in EventIds :
    /\ Events[j].kind = "kick" /\ Events[j].pbefore.vx > 0
    /\ Events[j].kbefore.shell
    /\ last.ghost_before[Events[j].k].from = "stomp"

\* C10: an enemy stomped (180) or kicked (300) and not stomped or kicked
\* again is in the shell state for exactly that many Koopa.update calls: it
\* is a shell while fewer have run, with shell_timer counting the rest, and
\* is not a shell once that many have run.
ShellTicks(from) == IF from = "stomp" THEN STOMP_TICKS ELSE KICK_TICKS

C10_ShellDuration ==
  \A i \in 1..Len(koopas) :
    IF ghost[i].from = "none"
    THEN ~koopas[i].shell
    ELSE /\ koopas[i].shell <=> ghost[i].age < ShellTicks(ghost[i].from)
         /\ koopas[i].shell =>
              koopas[i].shell_timer = ShellTicks(ghost[i].from) - ghost[i].age

C10_Witness ==
  \E i \in 1..Len(koopas) :
    ghost[i].from = "stomp" /\ ghost[i].age = STOMP_TICKS /\ ~koopas[i].shell

\* the same for a kicked enemy
C10_KickExpired ==
  \E i \in 1..Len(koopas) :
    ghost[i].from = "kick" /\ ghost[i].age = KICK_TICKS /\ ~koopas[i].shell

\* C11: coins are collected exactly once: the update in which the player
\* overlaps a coin removes it and adds 50 for it; within a level load the
\* coin score is 50 times the coins removed so far, hence at most 50 times
\* the coins spawned; no coin left in the group overlaps the player's box
\* of the latest update.
C11_CoinOnce ==
  /\ last.coin_award = COIN_SCORE * last.collected
  /\ hist.coin_score = COIN_SCORE * (hist.spawned - Len(coins))
  /\ hist.coin_score <= COIN_SCORE * hist.spawned
  /\ (last.outcome # "none" /\ ~last.level_test) =>
       \A i \in 1..Len(coins) :
         ~colliderect(PlayerRect(last.integrated), CoinRect(coins[i]))

\* the player still stands where a coin was collected in an earlier update
C11_Witness ==
  /\ hist.coin_score = COIN_SCORE /\ last.collected = 0 /\ Len(coins) = 0
  /\ \E c \in {coin_positions(DataOf(tile_map))[1]} :
       colliderect(PlayerRect(last.integrated), CoinRect(c))

\* the update that collects the coin
C11_Collected == last.collected = 1 /\ last.coin_award = COIN_SCORE

\* a solid tile lies directly beneath body b and touches its bottom edge
Supported(data, b) == TilesHit(data, Rect(b.x, b.y + b.h, BODY_W, 1)) # {}

\* C12: a player that has landed (on_ground, bottom edge on a tile, zero
\* horizontal velocity) and gets no input is on_ground again at the end of
\* the next update, and so at the end of every later one.
C12_StaysGrounded ==
  [][(/\ running /\ player.on_ground /\ player.vx = 0
      /\ Supported(DataOf(tile_map), player)
      /\ last'.keys = {} /\ last'.events = <<>>)
       => player'.on_ground]_vars

\* C13: for a body with zero velocity, check_collisions_y run once and run
\* twice in succession both leave on_ground and y as they were before the
\* call.
C13_RestIdempotent ==
  unit_out.status = "done" =>
    /\ unit_out.once.y = unit_in.y
    /\ unit_out.once.on_ground = unit_in.on_ground
    /\ unit_out.twice.y = unit_in.y
    /\ unit_out.twice.on_ground = unit_in.on_ground

\* the solid tiles the box of body b overlaps
Overlapped(data, b) == TilesHit(data, Rect(b.x, b.y, BODY_W, b.h))

\* C14: right after the horizontal resolution of an update
\* (check_collisions_x for the player, the wall loop for a koopa) the
\* body's box overlaps no solid tile.
C14_NoOverlapAfterX ==
  last.outcome # "none" =>
    /\ Overlapped(get_level(last.before[1], last.before[2]), last.after_x) = {}
    /\ \A i \in 1..Len(last.koopas_after_x) :
         Overlapped(get_level(last.before[1], last.before[2]),
                    last.koopas_after_x[i]) = {}

\* body `after` rests on the top of a solid tile that body `before` was
\* entirely below
PassedThrough(data, before, after) ==
  \E rc \in SolidCells(data) :
    /\ before.y >= (rc[1] + 1) * TILE_SIZE
    /\ after.y + after.h = rc[1] * TILE_SIZE
    /\ after.x < (rc[2] + 1) * TILE_SIZE
    /\ after.x + BODY_W > rc[2] * TILE_SIZE

\* C15: at the end of every update neither the player's box nor any
\* koopa's box overlaps a solid tile, and no body that started the update
\* entirely below a tile's bottom edge ends it resting on that tile's top.
C15_NoTunnel ==
  [][/\ Overlapped(DataOf(tile_map'), player') = {}
     /\ \A i \in 1..Len(koopas') :
          Overlapped(DataOf(tile_map'), koopas'[i]) = {}
     /\ ~PassedThrough(DataOf(tile_map), player, player')
     /\ ~(last'.level_test /\ last'.outcome = "True") =>
          \A i \in 1..Len(koopas) :
            ~PassedThrough(DataOf(tile_map), koopas[i], koopas'[i])]_vars

\* C16: on a platform three tiles wide with a drop at either end, a
\* patrolling koopa that starts above the middle tile heading right reverses
\* exactly once between two visits of the middle of the platform, at the end
\* it is heading for; no update reverses it twice (wall and ledge), and no
\* two consecutive ledge probes both reverse it.
C16_SingleReversal ==
  unit_out.status = "patrol" =>
    /\ ~(unit_out.wall_flip /\ unit_out.edge_flip)
    /\ ~(unit_out.checks[1] /\ unit_out.checks[2])
    /\ unit_out.since_mid <= 1
    /\ unit_out.arrived_with \in {-1, 1}
    /\ (unit_out.wall_flip \/ unit_out.edge_flip) =>
         IF unit_out.k.direction = -1
         THEN unit_out.k.x + BODY_W >= unit_in.left + Len(PLATFORM) * TILE_SIZE
         ELSE unit_out.k.x <= unit_in.left

\* the koopa is back above the middle tile heading right, having reversed
\* once at the right end and once at the left end
C16_Witness ==
  /\ unit_out.status = "patrol"
  /\ unit_out.arrived_with = 1
  /\ unit_out.k.direction = 1
  /\ unit_out.k.x = unit_in.left + TILE_SIZE
  /\ unit_out.k.y + BODY_H = unit_in.top

\* C17: a koopa that has landed on a platform never falls off it: in every
\* later state its feet are not below the top of the platform it landed on.
C17_StaysOnPlatform ==
  \A i \in 1..Len(koopas) :
    hist.landed_top[i] >= 0 => koopas[i].y + koopas[i].h <= hist.landed_top[i]

\* C18: a jump (vel.y set to JUMP_STRENGTH) happens only in an update that
\* starts with on_ground true, and on_ground is true at the start of an
\* update only if a solid tile lies directly beneath the body as the previous
\* update's vertical resolution left it; a player falling past a ledge
\* cannot jump.  Stated for koopahdr.py.
C18_JumpNeedsGround ==
  (/\ unit_out.status = "hdr"
   /\ "J" \in unit_out.keys
   /\ unit_out.intent.vy = HDR_JUMP_STRENGTH) =>
    /\ unit_out.before.on_ground
    /\ Supported(HdrLevel, unit_out.before)

\* C19: K_x outside shell mode starts it with shell_timer 300 and height 24;
\* K_x in shell mode does not restart the timer; counting the update that
\* starts it as the first, the player is in shell mode with 300 - n left
\* after update n < 300 and back to normal with height 32 in update 300.
C19_ShellTimed ==
  /\ hist.shell_age = 0 =>
       ~player.shell_state /\ player.h = BODY_H
  /\ (0 < hist.shell_age /\ hist.shell_age < PLAYER_SHELL_TICKS) =>
       /\ player.shell_state
       /\ player.h = SHELL_H
       /\ player.shell_timer = PLAYER_SHELL_TICKS - hist.shell_age
  /\ hist.shell_age >= PLAYER_SHELL_TICKS =>
       ~player.shell_state /\ player.h = BODY_H

\* the 300th update of a shell mode has just run
C19_Witness ==
  /\ hist.shell_age = PLAYER_SHELL_TICKS
  /\ ~player.shell_state
  /\ player.h = BODY_H

\* K_x is held in the 20th update of a shell mode
C19_HeldAgain ==
  /\ hist.shell_age = 20
  /\ "X" \in last.keys
  /\ player.shell_timer = PLAYER_SHELL_TICKS - 20

\* C20: in shell mode with a direction held the player's horizontal
\* displacement of an update, before collision resolution, is 1.2 times
\* PLAYER_SPEED, with the same magnitude to the left and to the right; with
\* no direction held it is 0, and in normal mode it is PLAYER_SPEED.
\* Displacements in tenths of a pixel; the rect holds whole pixels, so the
\* shell displacement is allowed to be the whole pixels below or above.
ShellStep == (PLAYER_SPEED * 12)

C20_ShellDisplacement ==
  [][(running /\ raised = "none") =>
       \E d \in {last'.moved.x - player.x} :
         IF last'.moved.vx = 0 THEN d = 0
         ELSE IF ~last'.moved.shell_state /\ ~player.shell_state
         THEN d \in {PLAYER_SPEED, -PLAYER_SPEED}
         ELSE IF last'.moved.shell_state
         THEN \/ d * 10 \in (ShellStep - 9)..(ShellStep + 9)
              \/ -d * 10 \in (ShellStep - 9)..(ShellStep + 9)
         ELSE TRUE]_vars

\* C21: an iteration integrates every live koopa exactly once before the
\* encounters are resolved.  Stated for koopahdr.py: after the sprite
\* updates of GameManager.update every koopa of the group koopas has had
\* one Koopa.update more than before.
C21_IntegratedOnce ==
  (unit_out.status \in {"running", "ended"} /\ unit_out.iterations > 0) =>
    \A i \in 1..Len(unit_out.info.sprites_integrated) :
      unit_out.info.before.sprites[i].live =>
        unit_out.info.sprites_integrated[i].updates
          = unit_out.info.before.sprites[i].updates + 1

\* C22: every enemy whose box overlaps the player's box after integration
\* is resolved in the same iteration, each by itself; the only enemies left
\* out are those behind the hurt that took the last life.  Stated for
\* koopahdr.py, where GameManager.update tests each enemy against the box
\* the player has when the loop reaches that enemy.
C22_HdrOverlapping ==
  {i \in 1..Len(unit_out.info.sprites_integrated) :
     /\ unit_out.info.sprites_integrated[i].live
     /\ colliderect(PlayerRect(unit_out.info.integrated),
                    KoopaRect(unit_out.info.sprites_integrated[i]))}

C22_HdrAllResolved ==
  (unit_out.status \in {"running", "ended"} /\ unit_out.iterations > 0) =>
    \/ unit_out.g.lives <= 0
    \/ \A i \in C22_HdrOverlapping :
         \E j \in 1..Len(unit_out.info.events) : unit_out.info.events[j].k = i

\* The same for KoopaHDR1, whose GameManager.update collects the
\* overlapping koopas once, before the first of them is resolved: the
\* encounters of an update are those koopas in insertion order, and k >= 2
\* patrolling koopas that a normal-mode player does not stomp take
\* min(k, lives) lives.
C22_Unstomped ==
  /\ Len(last.hits) >= 2
  /\ ~last.integrated.shell_state
  /\ \A j \in 1..Len(last.hits) :
       /\ ~last.koopas_integrated[last.hits[j]].shell
       /\ ~StompTest(last.integrated, last.koopas_integrated[last.hits[j]])

C22_AllResolved ==
  (last.outcome # "none") =>
    /\ Len(last.events) <= Len(last.hits)
    /\ \A j \in 1..Len(last.events) : last.events[j].k = last.hits[j]
    /\ Len(last.events) < Len(last.hits) => lives = 0
    /\ C22_Unstomped =>
         \E k \in {Len(last.hits)} :
           lives = last.lives_before
                     - (IF k < last.lives_before THEN k ELSE last.lives_before)

C22_Witness ==
  /\ C22_Unstomped
  /\ last.lives_before = START_LIVES
  /\ lives = START_LIVES - 2
  /\ running

C22_LastLives ==
  /\ C22_Unstomped
  /\ last.lives_before = 2
  /\ lives = 0

\* C23: load_level(world, level) of koopahdr.py leaves current_world and
\* current_level at the valid indices nearest to the requested ones: a
\* world past the last is the last world, a level past the last is the last
\* level of the selected world, a negative index is 0.
Clamp(n, lo, hi) == IF n < lo THEN lo ELSE IF n > hi THEN hi ELSE n

C23_Clamped ==
  (unit_out.status = "done") =>
    \E w \in {Clamp(unit_in.world, 0, Len(HdrWORLDS) - 1)} :
      /\ unit_out.current_world = w
      /\ unit_out.current_level
           = Clamp(unit_in.level, 0, Len(HdrWORLDS[w + 1]) - 1)

\* what the code does instead: an index out of range is replaced by 0, and
\* a world out of range resets the level as well
C23_ResetToFirst ==
  (unit_out.status = "done") =>
    /\ unit_out.current_world \in 0..(Len(HdrWORLDS) - 1)
    /\ unit_out.current_level
         \in 0..(Len(HdrWORLDS[unit_out.current_world + 1]) - 1)
    /\ unit_out.current_world
         = (IF unit_in.world \in 0..(Len(HdrWORLDS) - 1) THEN unit_in.world ELSE 0)
    /\ unit_out.current_level
         = (IF /\ unit_in.world \in 0..(Len(HdrWORLDS) - 1)
               /\ unit_in.level \in 0..(Len(HdrWORLDS[unit_in.world + 1]) - 1)
            THEN unit_in.level ELSE 0)

\* C24: an update of the player leaves, before the tiles are consulted,
\* vel.y = min(vel.y + GRAVITY, V_MAX), or JUMP_STRENGTH when it starts a
\* jump; and after every update of the session no body falls faster than
\* V_MAX: not the player, integrated or after the encounters (bounce,
\* respawn), and no koopa, integrated or after the encounters (stomp, kick).
C24_Capped ==
  /\ player.vy <= V_MAX
  /\ last.integrated.vy <= V_MAX
  /\ \A i \in 1..Len(koopas) : koopas[i].vy <= V_MAX
  /\ \A i \in 1..Len(last.koopas_integrated) : last.koopas_integrated[i].vy <= V_MAX

C24_FallSpeedCapped ==
  [][(running /\ raised = "none") =>
       /\ C24_Capped'
       /\ last'.moved.vy =
            (IF "J" \in last'.keys /\ player.on_ground THEN JUMP_STRENGTH
             ELSE IF player.vy + GRAVITY < V_MAX THEN player.vy + GRAVITY
             ELSE V_MAX)]_vars

\* a koopa and the player falling at the terminal speed
C24_Witness ==
  /\ last.moved.vy = V_MAX
  /\ \E i \in 1..Len(koopas) : koopas[i].vy = V_MAX

\* the same bound for koopahdr.py, whose terminal speed is 5 px per tick
C24_HdrCapped ==
  /\ unit_out.g.player.vy <= HDR_V_MAX
  /\ unit_out.info.integrated.vy <= HDR_V_MAX
  /\ \A i \in 1..Len(unit_out.g.sprites) : unit_out.g.sprites[i].vy <= HDR_V_MAX
  /\ \A i \in 1..Len(unit_out.info.sprites_integrated) :
       unit_out.info.sprites_integrated[i].vy <= HDR_V_MAX

C24_HdrPlayerWitness == unit_out.info.integrated.vy = HDR_V_MAX

C24_HdrKoopaWitness ==
  \E i \in 1..Len(unit_out.info.sprites_integrated) :
    unit_out.info.sprites_integrated[i].vy = HDR_V_MAX

\* C25: a patrolling koopa with no solid tile in its way advances in its
\* patrol direction in every update.  Stated for koopahdr.py: a live koopa
\* that is not a shell, and whose box moved KOOPA_SPEED ahead overlaps no
\* tile, has moved ahead when the sprites of the iteration are integrated.
C25_HdrWayFree(e) ==
  TilesHit(HdrData(HdrWorldsOf(unit_in.tables), unit_out.info.before),
           Rect(e.x + HDR_KOOPA_SPEED * e.direction, e.y, BODY_W, e.h)) = {}

C25_HdrAdvances ==
  (unit_out.status \in {"running", "ended"} /\ unit_out.iterations > 0) =>
    \A i \in 1..Len(unit_out.info.sprites_integrated) :
      \E e \in {unit_out.info.before.sprites[i]} :
        (e.live /\ ~e.shell /\ C25_HdrWayFree(e)) =>
          (unit_out.info.sprites_integrated[i].x - e.x) * e.direction > 0

\* The same for KoopaHDR1, with the exact step: KOOPA_SPEED pixels.
C25_WayFree(k) ==
  TilesHit(DataOf(tile_map),
           Rect(k.x + KOOPA_SPEED * k.direction, k.y, BODY_W, k.h)) = {}

C25_Advances ==
  [][(running /\ raised = "none") =>
       \A i \in 1..Len(koopas) :
         (~koopas[i].shell /\ C25_WayFree(koopas[i])) =>
           /\ last'.koopas_integrated[i].x
                = koopas[i].x + KOOPA_SPEED * koopas[i].direction
           /\ last'.koopas_after_x[i].x = last'.koopas_integrated[i].x]_vars

C25_Witness ==
  /\ tick > 0
  /\ \E i \in 1..Len(koopas) : ~koopas[i].shell /\ koopas[i].direction = -1

\* C26: after every level load, the creation of the session included, the
\* live enemies are one fresh koopa per K cell of the level, at the cell's
\* top-left corner, patrolling with direction +1 and shell timer 0, and no
\* enemy of the level before is left.  Stated for koopahdr.py, on the
\* session just created and on the session as load_level leaves it.
C26_Fresh(data, ks) ==
  /\ \A i \in 1..Len(ks) :
       /\ ks[i].direction = 1 /\ ~ks[i].shell /\ ks[i].shell_timer = 0
       /\ ks[i].vx = 0 /\ ks[i].vy = 0
       /\ ks[i].x % TILE_SIZE = 0 /\ ks[i].y % TILE_SIZE = 0
       /\ CellChar(data, ks[i].y \div TILE_SIZE, ks[i].x \div TILE_SIZE) = "K"
       /\ \A j \in 1..Len(ks) : (ks[j].x = ks[i].x /\ ks[j].y = ks[i].y) => j = i
  /\ \A row \in 0..(Len(data) - 1) : \A col \in 0..(Len(data[row + 1]) - 1) :
       CellChar(data, row, col) = "K" =>
         \E i \in 1..Len(ks) : ks[i].x = col * TILE_SIZE /\ ks[i].y = row * TILE_SIZE

C26_HdrLoaded(g) ==
  /\ C26_Fresh(HdrData(HdrWorldsOf(unit_in.tables), g),
               SelectSeq(g.sprites, LAMBDA e : e.live))
  /\ \A i \in 1..Len(g.sprites) : g.sprites[i].live

C26_HdrFreshLevel ==
  /\ (unit_out.status = "running" /\ unit_out.iterations = 0) =>
       C26_HdrLoaded(unit_out.g)
  /\ (unit_out.status \in {"running", "ended"} /\ unit_out.loaded) =>
       C26_HdrLoaded(unit_out.info.before)

\* the second half alone: a session that has loaded a level twice
C26_HdrLoadedOnce ==
  (unit_out.status \in {"running", "ended"} /\ unit_out.loaded) =>
     C26_HdrLoaded(unit_out.info.before)

\* The same for KoopaHDR1: the session just created, and what
\* GameManager.load_level would leave for any level of WORLDS, called on
\* the session at the start and where a level is complete.
C26_CoinsFresh(data, cs) ==
  /\ Len(cs) = Cardinality(CellSet(data, "C"))
  /\ \A row \in 0..(Len(data) - 1) : \A col \in 0..(Len(data[row + 1]) - 1) :
       CellChar(data, row, col) = "C" =>
         \E i \in 1..Len(cs) :
           colliderect(CoinRect(cs[i]), TileRect(row, col))

C26_FreshLevel ==
  /\ (tick = 0) => (C26_Fresh(DataOf(tile_map), koopas)
                      /\ C26_CoinsFresh(DataOf(tile_map), coins))
  /\ (tick = 0 \/ last.level_test) =>
       \A w \in 0..(NumWorlds - 1) : \A l \in 0..(NumLevels(w) - 1) :
         \E ld \in {GameManagerLoad(w, l, player)} :
           /\ C26_Fresh(DataOf(ld.tile_map), ld.koopas)
           /\ C26_CoinsFresh(DataOf(ld.tile_map), ld.coins)

\* C27: the respawn after a hurt and a level load only reposition the
\* player: position (START_X, START_Y), velocity zero, every other field of
\* the player (mode, shell timer, body height) and the score as before; the
\* hurt leaves every koopa as it was, and the enemy loop leaves the coins
\* that remained after the coin collection.
Repositioned(p) ==
  [p EXCEPT !.x = START_X, !.y = START_Y, !.vx = 0, !.vy = 0]

C27_OnlyRepositioned ==
  /\ \A j \in 1..Len(last.events) :
       \E e \in {last.events[j]} :
         (e.kind = "hurt" /\ e.lives_after > 0) =>
           /\ e.pafter = Repositioned(e.pbefore)
           /\ e.score_after = e.score_before
           /\ e.koopas_after = e.koopas_before
  /\ (last.outcome # "none" /\ ~(last.level_test /\ last.outcome = "True")) =>
       coins = last.coins_integrated
  /\ (tick = 0 \/ last.level_test) =>
       \A w \in 0..(NumWorlds - 1) : \A l \in 0..(NumLevels(w) - 1) :
         GameManagerLoad(w, l, player).player = Repositioned(player)

\* a hurt that moved a walking player back to the start, with koopas and a
\* coin on the level
C27_Witness ==
  /\ \E j \in 1..Len(last.events) :
       /\ last.events[j].kind = "hurt" /\ last.events[j].lives_after > 0
       /\ last.events[j].pbefore.x # START_X
       /\ last.events[j].pbefore.vx # 0
       /\ Len(last.events[j].koopas_before) > 0
  /\ Len(coins) > 0

\* a level complete in shell mode: the load would keep the mode
C27_ShellAtLoad == last.level_test /\ player.shell_state /\ player.shell_timer > 0

\* C28: lives start at START_LIVES and stay within 0..START_LIVES, no
\* update raises them, and no update runs once they are 0: the update that
\* takes the last life returns False and ends the loop of main(), whatever
\* the number of koopas that overlap the player in it.
C28_LivesBounded ==
  /\ lives = START_LIVES
  /\ [][/\ lives > 0
        /\ lives' \in 0..lives
        /\ lives' <= START_LIVES
        /\ tick' = tick + 1
        /\ (lives' = 0) => ~running']_vars

\* the last life taken by the first of two koopas that overlap the player
C28_Witness ==
  /\ lives = 0 /\ ~running /\ raised = "none"
  /\ last.lives_before = 1
  /\ Len(last.hits) = 2 /\ Len(last.events) = 1

\* the last two lives taken in one update by two koopas
C28_LastTwo ==
  /\ lives = 0 /\ ~running /\ raised = "none"
  /\ last.lives_before = 2
  /\ Len(last.hits) = 2 /\ Len(last.events) = 2

\* The same for koopahdr.py.
C28_HdrLivesBounded ==
  /\ unit_out.g.lives = HDR_START_LIVES
  /\ [][/\ unit_out.g.lives > 0
        /\ unit_out'.g.lives \in 0..unit_out.g.lives
        /\ (unit_out'.g.lives = 0) => unit_out'.status = "ended"]_vars

C28_HdrWitness == unit_out.g.lives = 0 /\ unit_out.status = "ended"

\* C29: after every update of the session every koopa is a shell exactly
\* when its shell_timer is above 0, and the timer lies within 0..300,
\* whatever updates, stomps and kicks it has been through, those that find
\* it a shell already included.
C29_ShellFlagTimer ==
  \A i \in 1..Len(koopas) :
    /\ koopas[i].shell <=> koopas[i].shell_timer > 0
    /\ koopas[i].shell_timer \in 0..KICK_TICKS

\* a koopa that was a shell when it was stomped or kicked
C29_Witness ==
  \E j \in 1..Len(last.events) :
    /\ last.events[j].kind = "stomp"
    /\ last.events[j].kbefore.shell
    /\ last.events[j].kbefore.shell_timer > STOMP_TICKS
    /\ koopas[last.events[j].k].shell_timer = STOMP_TICKS

C29_KickedShell ==
  \E j \in 1..Len(last.events) :
    last.events[j].kind = "kick" /\ last.events[j].kbefore.shell

C29_StompedShell ==
  \E j \in 1..Len(last.events) :
    last.events[j].kind = "stomp" /\ last.events[j].kbefore.shell

C29_RanOut ==
  \E i \in 1..Len(koopas) :
    /\ ~koopas[i].shell /\ koopas[i].shell_timer = 0
    /\ ghost[i].from # "none"

\* C30: after every update the player's mode and silhouette agree: in
\* shell mode the height is 24, dash_speed is not 0 and shell_timer is above
\* 0; otherwise the height is 32, dash_speed is 0 and shell_timer is at most
\* 0.  And the switch into shell mode, like the switch out of it, leaves
\* the bottom edge of the body where it was at that point of the update.
C30_Agree(p) ==
  IF p.shell_state
  THEN p.h = SHELL_H /\ p.dash_speed # 0 /\ p.shell_timer > 0
  ELSE p.h = BODY_H /\ p.dash_speed = 0 /\ p.shell_timer <= 0

Bottom(p) == p.y + p.h

\* the player when Player.update reaches the test of K_x
C30_AtEnter(keys) == PlayerKeys(player, keys)

\* the player when Player.update reaches the test of the timer
C30_AtEnd(keys) ==
  [PlayerShellEnter(C30_AtEnter(keys), keys)
     EXCEPT !.shell_timer = @ - 1, !.vx = (@ * 12) \div 10]

C30_ModeAndSilhouette ==
  /\ C30_Agree(player)
  /\ [][(running /\ raised = "none") =>
          /\ C30_Agree(player')
          /\ C30_Agree(last'.integrated)
          /\ Bottom(PlayerShellEnter(C30_AtEnter(last'.keys), last'.keys))
               = Bottom(C30_AtEnter(last'.keys))
          /\ C30_AtEnd(last'.keys).shell_state =>
               Bottom(PlayerShellEnd(C30_AtEnd(last'.keys)))
                 = Bottom(C30_AtEnd(last'.keys))
          /\ last'.moved.shell_state # player.shell_state =>
               last'.moved.y + last'.moved.h = player.y + player.h]_vars

\* the update that ends shell mode, for a player standing on the floor
C30_Witness ==
  /\ hist.shell_age = PLAYER_SHELL_TICKS
  /\ ~player.shell_state /\ player.h = BODY_H
  /\ player.on_ground

\* the update that enters shell mode
C30_Entered ==
  /\ hist.shell_age = 1
  /\ player.shell_state /\ player.h = SHELL_H
  /\ player.shell_timer = PLAYER_SHELL_TICKS - 1

\* C31: whatever load_level calls have been made, with whatever integers,
\* in either file the globals index WORLDS: 0 <= current_world < len(WORLDS)
\* and 0 <= current_level < len(WORLDS[current_world]); get_level() then
\* returns that entry of WORLDS, not its fallback grid.
\* the grid is the fallback of the file: 16 rows of dots in KoopaHDR1, a
\* list that holds one list of rows in koopahdr.py
C31_IsFallback(variant, grid) ==
  IF variant = "KoopaHDR1" THEN grid = FallbackLevel
  ELSE Len(grid) = Len(HdrFallback)

C31_IndicesValid ==
  (unit_out.status = "loads") =>
    /\ unit_out.current_world \in 0..(Len(WorldsOf(unit_in)) - 1)
    /\ unit_out.current_level
         \in 0..(Len(WorldsOf(unit_in)[unit_out.current_world + 1]) - 1)
    /\ GetLevelOf(unit_in, unit_out)
         = WorldsOf(unit_in)[unit_out.current_world + 1][unit_out.current_level + 1]
    /\ ~C31_IsFallback(unit_in, GetLevelOf(unit_in, unit_out))

\* the last of MaxCalls calls asked for a world and a level past the last
C31_Witness ==
  /\ unit_out.status = "loads" /\ unit_out.calls = MaxCalls
  /\ unit_in = "KoopaHDR1"
  /\ unit_out.asked.world >= Len(WORLDS)
  /\ unit_out.asked.level >= Len(WORLDS[Len(WORLDS)])
  /\ unit_out.current_world = Len(WORLDS) - 1

C31_HdrWitness ==
  /\ unit_out.status = "loads" /\ unit_out.calls = MaxCalls
  /\ unit_in = "koopahdr"
  /\ unit_out.asked.world \in 1..(Len(HdrWORLDS) - 1)
  /\ unit_out.asked.level > 0
  /\ unit_out.current_level = 0

C31_Negative ==
  /\ unit_out.status = "loads" /\ unit_out.calls > 0
  /\ unit_out.asked.world < 0 /\ unit_out.asked.level < 0

====
